---- MODULE Spec2Model ----
(***************************************************************************)
(* Model of the Google Drive transfer engine (src/drive_transfer.py):      *)
(* tree scan, folder mirror, batched parallel transfer with retries and    *)
(* adaptive concurrency.                                                   *)
(***************************************************************************)
EXTENDS Integers, Sequences, FiniteSets, TLC

(***************************************************************************)
(* Bounds of the model.                                                    *)
(***************************************************************************)
\* largest number of nodes below the source root
MaxNodes == 3
\* largest number of files in the flat file lists of the scheduler runs
MaxFiles == 4
\* largest configured max_workers
MaxWorkersCfg == 4
\* largest configured max_retries
MaxRetriesCfg == 3
\* throttled list calls the remote answers before it stops throttling
MaxThrottle == 2
\* runs of the tool against the same destination
MaxRuns == 2
\* items per page returned by the remote list call (1000 in the source)
PageSize == 2
\* max_workers and max_retries of the runs of main
PipelineWorkers == 2
PipelineRetries == 2
\* largest number of files of the runs that follow single transfers
MaxTransferFiles == 2
\* largest number of files of the runs in which the worker count is reduced
MaxAdaptFiles == 8
\* number of files of the runs in which the worker count falls and recovers
MaxRecoverFiles == 9
\* files of those runs whose download the source may refuse
MaxUnreadable == 4
\* largest number of calls of adjust_concurrency that are followed in a row
MaxAdjustCalls == 8
\* files of the job whose lock steps are interleaved
MaxLockFiles == 3
\* largest number of signatures the text of one error carries
MaxSignatures == 2
\* largest attempt number handle_network_error is called with
MaxAttempt == 4
\* direct calls of handle_network_error that are compared with one another
MaxBackoffCalls == 2
\* the jitter is drawn from JitterSteps + 1 evenly spaced points of its range
JitterSteps == 3

(***************************************************************************)
(* Strings are sequences of characters; paths use "/" as separator.        *)
(***************************************************************************)
Sep == "/"

\* a plain name and a name that contains the separator
Names == { <<"a">>, <<"a", "/", "a">> }

\* str.count('/')
CountSep(s) == Cardinality({k \in 1..Len(s) : s[k] = Sep})

\* index of the first separator of s, 0 if none
FirstSep(s) ==
  IF \E k \in 1..Len(s) : s[k] = Sep
  THEN CHOOSE k \in 1..Len(s) : s[k] = Sep /\ \A j \in 1..(k-1) : s[j] # Sep
  ELSE 0

RECURSIVE Split(_)
\* str.split('/')
Split(s) ==
  IF FirstSep(s) = 0 THEN <<s>>
  ELSE <<SubSeq(s, 1, FirstSep(s) - 1)>> \o Split(SubSeq(s, FirstSep(s) + 1, Len(s)))

RECURSIVE Join(_)
\* '/'.join(parts)
Join(parts) ==
  IF Len(parts) = 0 THEN <<>>
  ELSE IF Len(parts) = 1 THEN parts[1]
  ELSE parts[1] \o <<Sep>> \o Join(Tail(parts))

\* '/'.join(path.split('/')[:-1])
ParentPath(path) == Join(SubSeq(Split(path), 1, Len(Split(path)) - 1))

\* a path that is the name alone at every depth
FilePathNameOnly(current_path, name) == name

\* f"{current_path}/{name}" if current_path else name
FilePath(current_path, name) ==
  IF current_path # <<>> THEN current_path \o <<Sep>> \o name ELSE name

(***************************************************************************)
(* Identifiers and mime types.                                             *)
(***************************************************************************)
\* id of the source root folder (config.source_folder_id of a valid run)
RootId == 0
\* an empty source folder id ('' on the command line)
EmptyId == -1
\* id of the destination root folder (config.dest_folder_id)
DestRootId == 0

FolderMime == "folder"
RegularMime == "regular"
\* a Google document with an export format
GDocMime == "gdoc"
\* a Google-apps type without an export format
GOtherMime == "gother"
Mimes == {FolderMime, RegularMime, GDocMime, GOtherMime}

\* mime_type.startswith('application/vnd.google-apps') for a non-folder
IsGoogleApps(mime) == mime \in {GDocMime, GOtherMime, FolderMime}

(***************************************************************************)
(* The source account: nodes 1..n below the root, each with one parent.    *)
(***************************************************************************)
NodeSize(i, mime) == IF mime = FolderMime THEN 0 ELSE i

WellFormedTree(t, n) ==
  \A i \in 1..n :
    /\ t[i].parent < i
    /\ t[i].parent # RootId => t[t[i].parent].mime = FolderMime

TreesOfSize(n, mimes, names) ==
  { t \in [1..n -> [name : names, mime : mimes, parent : 0..(n-1)]] :
      WellFormedTree(t, n) }

Trees(maxn, mimes, names) == UNION { TreesOfSize(n, mimes, names) : n \in 0..maxn }

NodeIds(t) == DOMAIN t

\* the item record the list call returns for node i
Item(t, i) ==
  [id |-> i, name |-> t[i].name, mimeType |-> t[i].mime,
   size |-> NodeSize(i, t[i].mime), parent |-> t[i].parent]

RECURSIVE SeqOfSet(_)
\* ascending sequence of a set of integers
SeqOfSet(S) ==
  IF S = {} THEN <<>>
  ELSE LET m == CHOOSE x \in S : \A y \in S : x <= y
       IN <<m>> \o SeqOfSet(S \ {m})

\* files().list(q="'<folder_id>' in parents"): the direct children only
RemoteList(t, folder_id) ==
  LET ids == SeqOfSet({i \in NodeIds(t) : t[i].parent = folder_id})
  IN [k \in 1..Len(ids) |-> Item(t, ids[k])]

\* one page of the listing starting at offset tok
RemotePage(t, folder_id, tok) ==
  LET all == RemoteList(t, folder_id)
      hi  == IF tok + PageSize < Len(all) THEN tok + PageSize ELSE Len(all)
  IN [files |-> SubSeq(all, tok + 1, hi),
      nextPageToken |-> IF hi < Len(all) THEN hi ELSE 0]

(***************************************************************************)
(* get_folder_structure: the breadth-first build of the node set from the  *)
(* listed items.  The result is a dict in insertion order, modelled as a   *)
(* sequence of FileInfo records.                                           *)
(***************************************************************************)
FileInfo(item, path) ==
  [id |-> item.id, name |-> item.name, mime_type |-> item.mimeType,
   size |-> item.size, parent |-> item.parent, path |-> path]

\* structure[info.id] = info
DictPut(structure, info) ==
  IF \E k \in 1..Len(structure) : structure[k].id = info.id
  THEN [k \in 1..Len(structure) |->
          IF structure[k].id = info.id THEN info ELSE structure[k]]
  ELSE Append(structure, info)

RECURSIVE ProcessItems(_, _, _)
\* the loop over folder_items of one dequeued folder
ProcessItems(items, current_path, acc) ==
  IF items = <<>> THEN acc
  ELSE LET item == Head(items)
           file_path == FilePath(current_path, item.name)
           isFolder == item.mimeType = FolderMime
       IN ProcessItems(Tail(items), current_path,
            [structure |-> DictPut(acc.structure, FileInfo(item, file_path)),
             queue |-> IF isFolder THEN Append(acc.queue, item.id) ELSE acc.queue,
             paths |-> IF isFolder THEN (item.id :> file_path) @@ acc.paths
                       ELSE acc.paths])

RECURSIVE Bfs(_, _)
\* the while folders_to_process loop
Bfs(all_files, acc) ==
  IF acc.queue = <<>> THEN acc.structure
  ELSE LET current_folder_id == Head(acc.queue)
           current_path == acc.paths[current_folder_id]
           folder_items == SelectSeq(all_files,
                              LAMBDA item : item.parent = current_folder_id)
       IN Bfs(all_files,
              ProcessItems(folder_items, current_path,
                           [acc EXCEPT !.queue = Tail(acc.queue)]))

BuildStructure(all_files, folder_id, base_path) ==
  Bfs(all_files, [structure |-> <<>>, queue |-> <<folder_id>>,
                  paths |-> (folder_id :> base_path)])

\* every item of the source tree at every depth, parents before children
RECURSIVE AllItems(_, _)
AllItems(t, queue) ==
  IF queue = <<>> THEN <<>>
  ELSE LET here == RemoteList(t, Head(queue))
           sub == SelectSeq(here, LAMBDA it : it.mimeType = FolderMime)
       IN here \o AllItems(t, Tail(queue) \o [k \in 1..Len(sub) |-> sub[k].id])

\* the node set of the whole tree
CompleteStructure(t) == BuildStructure(AllItems(t, <<RootId>>), RootId, <<>>)

IsFolder(f) == f.mime_type = FolderMime

\* [f for f in files.values() if f.mime_type == folder]
FoldersOf(structure) == SelectSeq(structure, IsFolder)

\* [f for f in files.values() if f.mime_type != folder]
FilesOf(structure) == SelectSeq(structure, LAMBDA f : ~IsFolder(f))

(***************************************************************************)
(* create_folder_structure: order of processing and destination parent.    *)
(***************************************************************************)
\* the sort key: x.path.count('/')
Depth(f) == CountSep(f.path)

MaxDepthOf(fs) ==
  IF fs = <<>> THEN 0
  ELSE CHOOSE d \in {Depth(fs[k]) : k \in 1..Len(fs)} :
         \A k \in 1..Len(fs) : Depth(fs[k]) <= d

RECURSIVE ByDepthFrom(_, _, _)
ByDepthFrom(fs, d, maxd) ==
  IF d > maxd THEN <<>>
  ELSE SelectSeq(fs, LAMBDA f : Depth(f) = d) \o ByDepthFrom(fs, d + 1, maxd)

RECURSIVE ByDepthDownFrom(_, _)
ByDepthDownFrom(fs, d) ==
  IF d < 0 THEN <<>>
  ELSE SelectSeq(fs, LAMBDA f : Depth(f) = d) \o ByDepthDownFrom(fs, d - 1)

\* a sort that puts the deepest folders first
SortedFoldersDescending(structure) ==
  ByDepthDownFrom(FoldersOf(structure), MaxDepthOf(FoldersOf(structure)))

\* sorted(folders.values(), key=lambda x: x.path.count('/')): a stable sort
SortedFolders(structure) ==
  ByDepthFrom(FoldersOf(structure), 0, MaxDepthOf(FoldersOf(structure)))

\* next((f for f in folders if f.path == path), None): position, 0 for None
FirstWithPath(folders, path) ==
  IF \E k \in 1..Len(folders) : folders[k].path = path
  THEN CHOOSE k \in 1..Len(folders) :
         /\ folders[k].path = path
         /\ \A j \in 1..(k-1) : folders[j].path # path
  ELSE 0

\* the destination parent both the mirror and the transfer resolve by path
ResolveParentId(path, folders, mapping, dest_folder_id) ==
  LET parent_path == ParentPath(path)
      k == FirstWithPath(folders, parent_path)
  IN IF parent_path # <<>> /\ k # 0 /\ folders[k].id \in DOMAIN mapping
     THEN mapping[folders[k].id]
     ELSE dest_folder_id

\* destination folders a query for (name, parent) returns
ExistingFolders(dest, name, parent_id) ==
  {k \in 1..Len(dest) : dest[k].name = name /\ dest[k].parent = parent_id}

(***************************************************************************)
(* Errors of remote calls: an HTTP status (0 for none) and whether the     *)
(* text of the error carries a network signature.                          *)
(***************************************************************************)
Ok == [kind |-> "ok", status |-> 200, net |-> FALSE]
\* execute() returned None
NoneResponse == [kind |-> "none", status |-> 200, net |-> FALSE]
NetError == [kind |-> "exc", status |-> 0, net |-> TRUE]
Http429 == [kind |-> "http", status |-> 429, net |-> FALSE]
Http404 == [kind |-> "http", status |-> 404, net |-> FALSE]
\* the TypeError of line 565: download_buffer.write of the progress object
\* that next_chunk returns
TypeError == [kind |-> "type", status |-> 0, net |-> FALSE]
\* the last call of a download or upload leg answered, but more than
\* network_timeout seconds after the leg began
Late == [kind |-> "late", status |-> 200, net |-> FALSE]
\* an earlier next_chunk of the leg answered that late: the resumable
\* session is incomplete (308) and no file exists at the destination yet
LateChunk == [kind |-> "late", status |-> 308, net |-> FALSE]
\* the TimeoutError of lines 662 and 712, whose text carries no network
\* signature
TimeoutError == [kind |-> "exc", status |-> 0, net |-> FALSE]
\* the UnboundLocalError of a second 'del' of a local variable
UnboundLocalError == [kind |-> "exc", status |-> 0, net |-> FALSE]

RetryStatuses == {403, 429, 500, 502, 503, 504}

\* the worker count below which adjust_concurrency never goes
WorkersFloor == 2

\* is_network_error
IsNetworkError(e) == e.net

IsHttpError(e) == e.kind = "http"

(***************************************************************************)
(* adjust_concurrency on the pair (error_count, current_workers).          *)
(***************************************************************************)
Max(a, b) == IF a >= b THEN a ELSE b
Min(a, b) == IF a <= b THEN a ELSE b

(***************************************************************************)
(* handle_network_error: the wait before the next attempt.  The jitter of  *)
(* random.uniform(0.1, 1.0) is the fraction Jitter(s) / WaitScale for a    *)
(* draw s in 0..JitterSteps, and waits are in units of 1 / WaitScale       *)
(* seconds, so that all of it is integer arithmetic.                       *)
(***************************************************************************)
\* base_delay and max_delay of the four kinds of error text, in seconds
BackoffCategories ==
  { [name |-> "ssl", base_delay |-> 15, max_delay |-> 300],
    [name |-> "reset", base_delay |-> 8, max_delay |-> 120],
    [name |-> "timeout", base_delay |-> 12, max_delay |-> 180],
    [name |-> "other", base_delay |-> 5, max_delay |-> 60] }

\* the substrings is_network_error looks for in the lower-cased error text
NetworkSignatures ==
  { "incompleteread", "ssl:", "decryption failed", "bad record mac",
    "cipher operation failed", "connectionreseterror", "connectionabortederror",
    "timeouterror", "ssl.ssleerror", "urllib3.exceptions",
    "requests.exceptions.connectionerror", "requests.exceptions.timeout",
    "requests.exceptions.sslerror", "connection error", "network is unreachable",
    "temporary failure in name resolution", "connection timed out",
    "connection refused", "remote end closed connection",
    "connection reset by peer", "broken pipe", "connection aborted" }

\* the substrings handle_network_error looks for
SslSignatures ==
  { "ssl:", "decryption failed", "bad record mac", "cipher operation failed",
    "wrong version number" }
ResetSignatures == { "incompleteread", "connectionreseterror" }
TimeoutSignatures == { "timeouterror", "connection timed out" }

\* an error text is the set of these substrings it contains
RECURSIVE TextsUpTo(_)
TextsUpTo(n) ==
  IF n = 0 THEN {{}}
  ELSE LET shorter == TextsUpTo(n - 1)
       IN shorter \cup {t \cup {x} : t \in shorter,
                                     x \in NetworkSignatures \cup SslSignatures}

ErrorTexts == TextsUpTo(MaxSignatures) \ {{}}

\* is_network_error on an error text
IsNetworkErrorText(t) == t \cap NetworkSignatures # {}

CategoryNamed(n) == CHOOSE c \in BackoffCategories : c.name = n

\* the if/elif chain of handle_network_error: first match wins
BackoffCategory(t) ==
  IF t \cap SslSignatures # {} THEN CategoryNamed("ssl")
  ELSE IF t \cap ResetSignatures # {} THEN CategoryNamed("reset")
  ELSE IF t \cap TimeoutSignatures # {} THEN CategoryNamed("timeout")
  ELSE CategoryNamed("other")

\* the ends of the jitter range, in tenths
JitterLowTenths == 1
JitterHighTenths == 10

WaitScale == 10 * JitterSteps

JitterDraws == 0..JitterSteps

\* the jitter of draw s, times WaitScale
Jitter(s) == JitterLowTenths * JitterSteps + (JitterHighTenths - JitterLowTenths) * s

\* min(base_delay * (2 ** attempt) * jitter, max_delay), times WaitScale
WaitTime(c, attempt, s) ==
  Min(c.base_delay * (2 ^ attempt) * Jitter(s), c.max_delay * WaitScale)

\* an adjustment whose floor is the configured worker count
AdjustConcurrencyNoFloor(c, success, ec, cw) ==
  IF ~c.adaptive_concurrency THEN [error_count |-> ec, current_workers |-> cw]
  ELSE IF success
  THEN [error_count |-> Max(0, ec - 1),
        current_workers |-> IF Max(0, ec - 1) = 0 /\ cw < c.max_workers
                            THEN Min(cw + 1, c.max_workers) ELSE cw]
  ELSE [error_count |-> ec + 1,
        current_workers |-> IF ec + 1 >= 3 THEN cw - 1 ELSE cw]

\* an adjustment that reduces the worker count only when the counter is 3
AdjustConcurrencyOnceAtThree(c, success, ec, cw) ==
  IF ~c.adaptive_concurrency THEN [error_count |-> ec, current_workers |-> cw]
  ELSE IF success
  THEN [error_count |-> Max(0, ec - 1),
        current_workers |-> IF Max(0, ec - 1) = 0 /\ cw < c.max_workers
                            THEN Min(cw + 1, c.max_workers) ELSE cw]
  ELSE [error_count |-> ec + 1,
        current_workers |-> IF ec + 1 = 3 /\ cw > 2
                            THEN Max(2, cw - 1) ELSE cw]

\* an adjustment that restores max_workers once the counter is back at 0
AdjustConcurrencyResetToMax(c, success, ec, cw) ==
  IF ~c.adaptive_concurrency THEN [error_count |-> ec, current_workers |-> cw]
  ELSE IF success
  THEN [error_count |-> Max(0, ec - 1),
        current_workers |-> IF Max(0, ec - 1) = 0 /\ cw < c.max_workers
                            THEN c.max_workers ELSE cw]
  ELSE [error_count |-> ec + 1,
        current_workers |-> IF ec + 1 >= 3 /\ cw > 2
                            THEN Max(2, cw - 1) ELSE cw]

\* an adjustment that ignores the adaptive_concurrency switch
AdjustConcurrencyAlways(c, success, ec, cw) ==
  IF success
  THEN [error_count |-> Max(0, ec - 1),
        current_workers |-> IF Max(0, ec - 1) = 0 /\ cw < c.max_workers
                            THEN Min(cw + 1, c.max_workers) ELSE cw]
  ELSE [error_count |-> ec + 1,
        current_workers |-> IF ec + 1 >= 3 /\ cw > 2
                            THEN Max(2, cw - 1) ELSE cw]

AdjustConcurrency(c, success, ec, cw) ==
  IF ~c.adaptive_concurrency THEN [error_count |-> ec, current_workers |-> cw]
  ELSE IF success
  THEN [error_count |-> Max(0, ec - 1),
        current_workers |-> IF Max(0, ec - 1) = 0 /\ cw < c.max_workers
                            THEN Min(cw + 1, c.max_workers) ELSE cw]
  ELSE [error_count |-> ec + 1,
        current_workers |-> IF ec + 1 >= 3 /\ cw > 2
                            THEN Max(2, cw - 1) ELSE cw]

(***************************************************************************)
(* Retry control flow of one file transfer.  A decision says what the      *)
(* loop does next ("continue", "return" False, or "raise" err to the       *)
(* caller) and how many backoff sleeps it took.                            *)
(***************************************************************************)
Decision(next, sleeps, err, adjust) ==
  [next |-> next, sleeps |-> sleeps, err |-> err, adjust |-> adjust]

\* a handler that retries every error while attempts are left
InnerExceptRetryAll(e, attempt, c, slept) ==
  IF attempt < c.max_retries - 1
  THEN Decision("continue", slept + 1, e, FALSE)
  ELSE Decision("return", slept, e, FALSE)

\* the handler 'except Exception' that closes the body of the inner loop
InnerExcept(e, attempt, c, slept) ==
  IF IsNetworkError(e) /\ attempt < c.max_retries - 1
  THEN Decision("continue", slept + 1, e, FALSE)
  ELSE Decision("return", slept, e, FALSE)

\* a chunk handler that retries an interrupted leg without looking at the
\* attempts that are left
ChunkHandlerFreeRetry(breaksLoop, e, attempt, c) ==
  IF IsNetworkError(e)
  THEN Decision("continue", 1, e, FALSE)
  ELSE InnerExcept(e, attempt, c, 0)

\* the handler around a download or upload call.  breaksLoop: the handler
\* deletes the local and leaves the chunk loop with 'break', and the
\* statement after the loop deletes the same local again
ChunkHandler(breaksLoop, e, attempt, c) ==
  IF IsNetworkError(e) /\ attempt < c.max_retries - 1
  THEN IF breaksLoop
       THEN InnerExcept(UnboundLocalError, attempt, c, 1)
       ELSE Decision("continue", 1, e, FALSE)
  ELSE InnerExcept(e, attempt, c, 0)

\* the handlers of transfer_file_safe for an exception of the transfer call
OuterExcept(e, attempt, c) ==
  IF IsHttpError(e)
  THEN IF e.status \in RetryStatuses
       THEN IF attempt < c.max_retries - 1
            THEN Decision("continue", 1, e, FALSE)
            ELSE Decision("return", 0, e, FALSE)
       ELSE Decision("return", 0, e, TRUE)
  ELSE IF IsNetworkError(e) /\ attempt < c.max_retries - 1
       THEN Decision("continue", 1, e, FALSE)
       ELSE Decision("return", 0, e, TRUE)

(***************************************************************************)
(* State.                                                                  *)
(***************************************************************************)
VARIABLES
  src,               \* the source tree
  cfg,               \* TransferConfig
  run,               \* number of the current run against the destination
  phase,             \* position of main
  all_files,         \* _get_all_files_in_folder: items listed so far
  page_token,        \* ... continuation token, 0 for None
  page_count,        \* ... list calls issued
  throttled,         \* throttled list responses so far
  structure,         \* source_files, the scanned node set
  mi,                \* folders of sorted_folders already processed
  folder_mapping,    \* source folder id -> destination folder id
  mirror_outcome,    \* what the mirror did with each processed folder
  dest_folders,      \* folders of the destination account, id = position
  uploads,           \* files of the destination account
  i,                 \* offset of the current batch in file_list
  batch,             \* positions of file_list in the current batch
  batch_size,        \* batch_size of the current batch
  task,              \* one transfer task per position of file_list
  transferred_files,
  total_files,
  transferred_bytes,
  total_bytes,
  error_count,
  current_workers,
  failed_calls,      \* kinds of remote call that have failed so far
  waits,             \* backoff waits of handle_network_error, when recorded
  progress_lock,     \* the thread that holds progress_lock
  frames             \* calls of adjust_concurrency and update_progress
                     \* in progress, by thread

scanVars == <<all_files, page_token, page_count, throttled, structure>>
mirrorVars == <<mi, folder_mapping, mirror_outcome>>
schedVars == <<i, batch, batch_size, task>>
counterVars == <<transferred_files, total_files, transferred_bytes, total_bytes>>
adaptVars == <<error_count, current_workers>>
vars == <<src, cfg, run, phase, scanVars, mirrorVars, dest_folders, uploads,
          schedVars, counterVars, adaptVars, failed_calls, waits,
          progress_lock, frames>>

\* threads: the main thread and the executor thread that runs task k
NoHolder == [thread |-> "none", k |-> 0]
MainThread == [thread |-> "main", k |-> 0]
Worker(k) == [thread |-> "worker", k |-> k]

\* a call of adjust_concurrency(success) or of update_progress for task k
\* that has arrived at its 'with self.progress_lock', and the values it reads
Frame(pc, k, success) ==
  [pc |-> pc, k |-> k, success |-> success,
   error_count |-> 0, current_workers |-> 0,
   transferred_files |-> 0, transferred_bytes |-> 0]

Config(source, workers, retries, adaptive) ==
  [source_folder_id |-> source, dest_folder_id |-> DestRootId,
   max_workers |-> workers, max_retries |-> retries,
   adaptive_concurrency |-> adaptive, max_files |-> 0]

\* file_list of transfer_all_files
FileList ==
  LET fl == FilesOf(structure)
  IN IF cfg.max_files # 0 /\ Len(fl) > cfg.max_files
     THEN SubSeq(fl, 1, cfg.max_files) ELSE fl

NewTask ==
  [st |-> "new", oa |-> 0, ia |-> 0, passes |-> 0, sleeps |-> 0,
   parent_id |-> DestRootId, result |-> FALSE, adjusts |-> 0, errs |-> <<>>,
   submitted |-> 0, raised |-> FALSE]

\* GoogleDriveTransfer.__init__ for a new process
FreshRun ==
  /\ all_files = <<>>
  /\ page_token = 0
  /\ page_count = 0
  /\ throttled = 0
  /\ mi = 0
  /\ folder_mapping = << >>
  /\ mirror_outcome = << >>
  /\ i = 0
  /\ batch = <<>>
  /\ batch_size = 0
  /\ task = << >>
  /\ transferred_files = 0
  /\ total_files = 0
  /\ transferred_bytes = 0
  /\ total_bytes = 0
  /\ error_count = 0
  /\ current_workers = cfg.max_workers

EmptyDestination ==
  /\ dest_folders = <<>>
  /\ uploads = <<>>
  /\ failed_calls = {}
  /\ run = 1
  /\ waits = <<>>
  /\ progress_lock = NoHolder
  /\ frames = << >>

(***************************************************************************)
(* Scan: get_folder_structure and _get_all_files_in_folder.                *)
(***************************************************************************)
ListOutcomes == {Ok, NoneResponse, Http429, Http404, NetError}

\* a validation that lets an empty folder_id through
ScanInvalidRootIgnored ==
  /\ phase = "scan"
  /\ cfg.source_folder_id = EmptyId
  /\ phase' = "mirror"
  /\ UNCHANGED <<progress_lock, frames, waits, src, cfg, run, scanVars, mirrorVars, dest_folders, uploads,
                 schedVars, counterVars, adaptVars, failed_calls>>

\* the validation of folder_id raises
ScanInvalidRoot ==
  /\ phase = "scan"
  /\ cfg.source_folder_id = EmptyId
  /\ phase' = "scan_failed"
  /\ UNCHANGED <<progress_lock, frames, waits, src, cfg, run, scanVars, mirrorVars, dest_folders, uploads,
                 schedVars, counterVars, adaptVars, failed_calls>>

\* number of non-folders main counts after the scan
CountFiles(st) == Len(FilesOf(st))

\* a pagination loop that starts again from the first page after a throttled
\* call, with the items it already has
ListPageRestarting(o) ==
  /\ phase = "scan"
  /\ cfg.source_folder_id # EmptyId
  /\ page_count' = page_count + 1
  /\ IF o = Ok
     THEN LET page == RemotePage(src, cfg.source_folder_id, page_token)
              listed == all_files \o page.files
              built == BuildStructure(listed, cfg.source_folder_id, <<>>)
          IN /\ all_files' = listed
             /\ page_token' = page.nextPageToken
             /\ IF page.nextPageToken = 0
                THEN /\ structure' = built
                     /\ phase' = IF CountFiles(built) = 0 THEN "done" ELSE "mirror"
                ELSE UNCHANGED <<structure, phase>>
             /\ UNCHANGED <<throttled, failed_calls>>
     ELSE IF IsHttpError(o) /\ o.status \in RetryStatuses
     THEN /\ throttled < MaxThrottle
          /\ throttled' = throttled + 1
          /\ page_token' = 0
          /\ failed_calls' = failed_calls \cup {"list"} \cup
                               (IF page_token # 0 THEN {"list_next"} ELSE {})
          /\ UNCHANGED <<all_files, structure, phase>>
     ELSE /\ phase' = "scan_failed"
          /\ failed_calls' = failed_calls \cup {"list"}
          /\ UNCHANGED <<all_files, page_token, structure, throttled>>
  /\ UNCHANGED <<progress_lock, frames, waits, src, cfg, run, mirrorVars, dest_folders, uploads,
                 schedVars, counterVars, adaptVars>>

\* a main that goes on to the mirror whenever the scan found a node, without
\* the test of line 1174
ListPageAlwaysMirrors(o) ==
  /\ phase = "scan"
  /\ cfg.source_folder_id # EmptyId
  /\ page_count' = page_count + 1
  /\ IF o = Ok
     THEN LET page == RemotePage(src, cfg.source_folder_id, page_token)
              listed == all_files \o page.files
              built == BuildStructure(listed, cfg.source_folder_id, <<>>)
          IN /\ all_files' = listed
             /\ page_token' = page.nextPageToken
             /\ IF page.nextPageToken = 0
                THEN /\ structure' = built
                     /\ phase' = IF Len(built) = 0 THEN "done" ELSE "mirror"
                ELSE UNCHANGED <<structure, phase>>
             /\ UNCHANGED <<throttled, failed_calls>>
     ELSE IF IsHttpError(o) /\ o.status \in RetryStatuses
     THEN /\ throttled < MaxThrottle
          /\ throttled' = throttled + 1
          /\ failed_calls' = failed_calls \cup {"list"} \cup
                               (IF page_token # 0 THEN {"list_next"} ELSE {})
          /\ UNCHANGED <<all_files, page_token, structure, phase>>
     ELSE /\ phase' = "scan_failed"
          /\ failed_calls' = failed_calls \cup {"list"}
          /\ UNCHANGED <<all_files, page_token, structure, throttled>>
  /\ UNCHANGED <<progress_lock, frames, waits, src, cfg, run, mirrorVars, dest_folders, uploads,
                 schedVars, counterVars, adaptVars>>

\* one list call of the pagination loop and what follows it
ListPage(o) ==
  /\ phase = "scan"
  /\ cfg.source_folder_id # EmptyId
  /\ page_count' = page_count + 1
  /\ IF o = Ok
     THEN LET page == RemotePage(src, cfg.source_folder_id, page_token)
              listed == all_files \o page.files
              built == BuildStructure(listed, cfg.source_folder_id, <<>>)
          IN /\ all_files' = listed
             /\ page_token' = page.nextPageToken
             /\ IF page.nextPageToken = 0
                THEN /\ structure' = built
                     /\ phase' = IF CountFiles(built) = 0 THEN "done" ELSE "mirror"
                ELSE UNCHANGED <<structure, phase>>
             /\ UNCHANGED <<throttled, failed_calls>>
     ELSE IF IsHttpError(o) /\ o.status \in RetryStatuses
     THEN /\ throttled < MaxThrottle
          /\ throttled' = throttled + 1
          /\ failed_calls' = failed_calls \cup {"list"} \cup
                               (IF page_token # 0 THEN {"list_next"} ELSE {})
          /\ UNCHANGED <<all_files, page_token, structure, phase>>
     ELSE /\ phase' = "scan_failed"
          /\ failed_calls' = failed_calls \cup {"list"}
          /\ UNCHANGED <<all_files, page_token, structure, throttled>>
  /\ UNCHANGED <<progress_lock, frames, waits, src, cfg, run, mirrorVars, dest_folders, uploads,
                 schedVars, counterVars, adaptVars>>

(***************************************************************************)
(* Mirror: create_folder_structure and _check_folder_exists.               *)
(***************************************************************************)
QueryOutcomes == {Ok, NoneResponse, Http429, NetError}
CreateOutcomes == {Ok, NoneResponse, Http404, NetError}

\* a resolution that puts every folder under the destination root
MirrorParentIdRootOnly(folder, st, mapping, c) == c.dest_folder_id

\* lines 394-404: the destination parent of a folder
MirrorParentId(folder, st, mapping, c) ==
  ResolveParentId(folder.path, FoldersOf(st), mapping, c.dest_folder_id)

\* a query that matches a folder of that name under any parent
CheckFolderExistsAnyParent(o, dest, name, parent_id) ==
  IF o = Ok /\ \E k \in 1..Len(dest) : dest[k].name = name
  THEN {k \in 1..Len(dest) : dest[k].name = name}
  ELSE {0}

\* _check_folder_exists: the ids it can return, 0 for None
CheckFolderExists(o, dest, name, parent_id) ==
  IF o = Ok /\ ExistingFolders(dest, name, parent_id) # {}
  THEN ExistingFolders(dest, name, parent_id)
  ELSE {0}

QueryFailure(qo) == IF qo = Ok THEN {} ELSE {"query"}

\* one iteration of the loop over sorted_folders
MirrorFolder(qo, co) ==
  /\ phase = "mirror"
  /\ mi < Len(SortedFolders(structure))
  /\ LET folder == SortedFolders(structure)[mi + 1]
         parent_id == MirrorParentId(folder, structure, folder_mapping, cfg)
     IN IF folder.id \in DOMAIN folder_mapping
        THEN /\ mi' = mi + 1
             /\ UNCHANGED <<folder_mapping, mirror_outcome, dest_folders,
                            phase, failed_calls>>
        ELSE IF qo.kind = "exc"
        THEN /\ phase' = "mirror_failed"
             /\ mirror_outcome' = (folder.id :> "query_raised") @@ mirror_outcome
             /\ failed_calls' = failed_calls \cup {"query"}
             /\ UNCHANGED <<mi, folder_mapping, dest_folders>>
        ELSE \E existing \in CheckFolderExists(qo, dest_folders, folder.name, parent_id) :
          IF existing # 0
          THEN /\ folder_mapping' = (folder.id :> existing) @@ folder_mapping
               /\ mirror_outcome' = (folder.id :> "matched") @@ mirror_outcome
               /\ mi' = mi + 1
               /\ UNCHANGED <<dest_folders, phase, failed_calls>>
          ELSE IF co = Ok
          THEN /\ dest_folders' = Append(dest_folders,
                                    [name |-> folder.name, parent |-> parent_id])
               /\ folder_mapping' =
                    (folder.id :> Len(dest_folders) + 1) @@ folder_mapping
               /\ mirror_outcome' = (folder.id :> "created") @@ mirror_outcome
               /\ mi' = mi + 1
               /\ failed_calls' = failed_calls \cup QueryFailure(qo)
               /\ UNCHANGED phase
          ELSE IF IsHttpError(co)
          THEN /\ mirror_outcome' = (folder.id :> "create_failed") @@ mirror_outcome
               /\ mi' = mi + 1
               /\ failed_calls' = failed_calls \cup QueryFailure(qo) \cup {"create"}
               /\ UNCHANGED <<folder_mapping, dest_folders, phase>>
          ELSE /\ phase' = "mirror_failed"
               /\ mirror_outcome' = (folder.id :> "create_raised") @@ mirror_outcome
               /\ failed_calls' = failed_calls \cup QueryFailure(qo) \cup {"create"}
               /\ UNCHANGED <<mi, folder_mapping, dest_folders>>
  /\ UNCHANGED <<progress_lock, frames, waits, src, cfg, run, scanVars, uploads, schedVars, counterVars,
                 adaptVars>>

(***************************************************************************)
(* Transfer: transfer_all_files, transfer_file_safe and the per-type       *)
(* transfer functions.                                                     *)
(***************************************************************************)
\* lines 763-798 of transfer_all_files, up to the first batch; with an empty
\* file_list the loop of line 802 is skipped and the function returns
BeginTransfer ==
  /\ phase = "mirror"
  /\ mi = Len(SortedFolders(structure))
  /\ phase' = IF Len(FileList) = 0 THEN "done" ELSE "transfer"
  /\ total_files' = Len(FileList)
  /\ total_bytes' = LET fl == FileList
                        sum[k \in 0..Len(fl)] ==
                          IF k = 0 THEN 0 ELSE sum[k - 1] + fl[k].size
                    IN sum[Len(fl)]
  /\ task' = [k \in 1..Len(FileList) |-> NewTask]
  /\ i' = 0
  /\ batch' = <<>>
  /\ UNCHANGED <<progress_lock, frames, waits, src, cfg, run, scanVars, mirrorVars, dest_folders, uploads,
                 batch_size, transferred_files, transferred_bytes, adaptVars,
                 failed_calls>>

\* a batch sized from the configured worker count
FormBatchFromMax ==
  /\ phase = "transfer"
  /\ batch = <<>>
  /\ i < Len(FileList)
  /\ LET current_batch_workers == cfg.max_workers
         size == current_batch_workers * 2
         last == Min(i + size, Len(FileList))
     IN /\ batch_size' = size
        /\ batch' = [k \in 1..(last - i) |-> i + k]
        /\ task' = [k \in DOMAIN task |->
                      IF k > i /\ k <= last
                      THEN [task[k] EXCEPT !.st = "queued", !.submitted = @ + 1]
                      ELSE task[k]]
  /\ UNCHANGED <<progress_lock, frames, waits, src, cfg, run, phase, scanVars, mirrorVars, dest_folders,
                 uploads, i, counterVars, adaptVars, failed_calls>>

\* a batch sized for one worker less than current_workers
FormBatchBelowWorkers ==
  /\ phase = "transfer"
  /\ batch = <<>>
  /\ i < Len(FileList)
  /\ LET current_batch_workers == current_workers - 1
         size == current_batch_workers * 2
         last == Min(i + size, Len(FileList))
     IN /\ batch_size' = size
        /\ batch' = [k \in 1..(last - i) |-> i + k]
        /\ task' = [k \in DOMAIN task |->
                      IF k > i /\ k <= last
                      THEN [task[k] EXCEPT !.st = "queued", !.submitted = @ + 1]
                      ELSE task[k]]
  /\ UNCHANGED <<progress_lock, frames, waits, src, cfg, run, phase, scanVars, mirrorVars, dest_folders,
                 uploads, i, counterVars, adaptVars, failed_calls>>

\* lines 803-816: a batch is formed and submitted to the executor
FormBatch ==
  /\ phase = "transfer"
  /\ batch = <<>>
  /\ i < Len(FileList)
  /\ LET current_batch_workers == current_workers
         size == current_batch_workers * 2
         last == Min(i + size, Len(FileList))
     IN /\ batch_size' = size
        /\ batch' = [k \in 1..(last - i) |-> i + k]
        /\ task' = [k \in DOMAIN task |->
                      IF k > i /\ k <= last
                      THEN [task[k] EXCEPT !.st = "queued", !.submitted = @ + 1]
                      ELSE task[k]]
  /\ UNCHANGED <<progress_lock, frames, waits, src, cfg, run, phase, scanVars, mirrorVars, dest_folders,
                 uploads, i, counterVars, adaptVars, failed_calls>>

Running ==
  {k \in DOMAIN task : task[k].st \in {"download", "upload", "adjusting"}}

\* a resolution that climbs to the folder above an unmapped parent
TransferParentIdClimbing(file_info, st, mapping, c) ==
  LET k == FirstWithPath(FoldersOf(st), ParentPath(file_info.path))
  IN IF k # 0 /\ FoldersOf(st)[k].id \notin DOMAIN mapping
     THEN ResolveParentId(ParentPath(file_info.path), FoldersOf(st), mapping,
                          c.dest_folder_id)
     ELSE ResolveParentId(file_info.path, FoldersOf(st), mapping,
                          c.dest_folder_id)

\* lines 476-489: the destination parent of a file
TransferParentId(file_info, st, mapping, c) ==
  ResolveParentId(file_info.path, FoldersOf(st), mapping, c.dest_folder_id)

\* transfer_file_safe is to return result after sleeps more backoff waits,
\* through adjust_concurrency(result) when adjust holds
Returned(t, result, sleeps, adjust) ==
  [task |-> [t EXCEPT !.st = IF adjust THEN "adjusting" ELSE "done",
                      !.result = result,
                      !.sleeps = @ + sleeps],
   adjust |-> adjust]

\* the body of one attempt of transfer_file_safe up to its first remote call
BeginOuterAttempt(t, mime, sleeps) ==
  IF mime = GOtherMime
  THEN Returned(t, FALSE, sleeps, TRUE)
  ELSE [task |-> [t EXCEPT !.st = "download", !.ia = 0, !.passes = @ + 1,
                           !.sleeps = @ + sleeps],
        adjust |-> FALSE]

\* what follows a decision d of the per-type transfer function
AfterInner(t, mime, d) ==
  IF d.next = "continue"
  THEN [task |-> [t EXCEPT !.st = "download", !.ia = @ + 1, !.passes = @ + 1,
                           !.sleeps = @ + d.sleeps],
        adjust |-> FALSE]
  ELSE IF d.next = "return"
  THEN Returned(t, FALSE, d.sleeps, TRUE)
  ELSE LET o == OuterExcept(d.err, t.oa, cfg)
       IN IF o.next = "continue"
          THEN BeginOuterAttempt([t EXCEPT !.oa = @ + 1], mime,
                                 d.sleeps + o.sleeps)
          ELSE Returned(t, FALSE, d.sleeps + o.sleeps, o.adjust)

\* the thread of task k goes on as r says; a thread that is to adjust has
\* called adjust_concurrency and has not yet changed the shared fields
Apply(k, r) ==
  /\ task' = [task EXCEPT ![k] = r.task]
  /\ frames' = IF r.adjust
               THEN frames @@ (Worker(k) :> Frame("acquire", k, r.task.result))
               ELSE frames
  /\ UNCHANGED adaptVars

\* adjust_concurrency(result) of the thread of task k, lines 195-211: the
\* flag test, and the block of line 200 as one step of the lock holder
Adjust(k) ==
  /\ Worker(k) \in DOMAIN frames
  /\ frames[Worker(k)].pc = "acquire"
  /\ progress_lock = NoHolder
  /\ LET a == AdjustConcurrency(cfg, frames[Worker(k)].success, error_count,
                                current_workers)
     IN /\ error_count' = a.error_count
        /\ current_workers' = a.current_workers
  /\ frames' = [t \in DOMAIN frames \ {Worker(k)} |-> frames[t]]
  /\ task' = [task EXCEPT ![k].st = "done", ![k].adjusts = @ + 1]
  /\ UNCHANGED <<progress_lock, waits, src, cfg, run, phase, scanVars,
                 mirrorVars, dest_folders, uploads, i, batch, batch_size,
                 counterVars, failed_calls>>

\* an executor thread that takes progress_lock for the whole transfer
StartTaskHoldingLock(k) ==
  /\ phase = "transfer"
  /\ k \in DOMAIN task
  /\ task[k].st = "queued"
  /\ \A j \in DOMAIN task : task[j].st = "queued" => k <= j
  /\ Cardinality(Running) < cfg.max_workers
  /\ progress_lock = NoHolder
  /\ progress_lock' = Worker(k)
  /\ Apply(k, BeginOuterAttempt(
        [task[k] EXCEPT !.parent_id =
            TransferParentId(FileList[k], structure, folder_mapping, cfg)],
        FileList[k].mime_type, 0))
  /\ UNCHANGED <<waits, src, cfg, run, phase, scanVars, mirrorVars,
                 dest_folders, uploads, i, batch, batch_size, counterVars,
                 failed_calls>>

\* an executor thread that records the parent it resolved for the file in
\* folder_mapping
StartTaskCachingParent(k) ==
  /\ phase = "transfer"
  /\ k \in DOMAIN task
  /\ task[k].st = "queued"
  /\ \A j \in DOMAIN task : task[j].st = "queued" => k <= j
  /\ Cardinality(Running) < cfg.max_workers
  /\ Apply(k, BeginOuterAttempt(
        [task[k] EXCEPT !.parent_id =
            TransferParentId(FileList[k], structure, folder_mapping, cfg)],
        FileList[k].mime_type, 0))
  /\ folder_mapping' =
       [n \in DOMAIN folder_mapping \cup {FileList[k].id} |->
          IF n = FileList[k].id
          THEN TransferParentId(FileList[k], structure, folder_mapping, cfg)
          ELSE folder_mapping[n]]
  /\ UNCHANGED <<progress_lock, waits, src, cfg, run, phase, scanVars,
                 mi, mirror_outcome, dest_folders, uploads, i, batch,
                 batch_size, counterVars, failed_calls>>

\* an executor thread takes the next submitted task
StartTask(k) ==
  /\ phase = "transfer"
  /\ k \in DOMAIN task
  /\ task[k].st = "queued"
  /\ \A j \in DOMAIN task : task[j].st = "queued" => k <= j
  /\ Cardinality(Running) < cfg.max_workers
  /\ Apply(k, BeginOuterAttempt(
        [task[k] EXCEPT !.parent_id =
            TransferParentId(FileList[k], structure, folder_mapping, cfg)],
        FileList[k].mime_type, 0))
  /\ UNCHANGED <<progress_lock, waits, src, cfg, run, phase, scanVars, mirrorVars, dest_folders,
                 uploads, i, batch, batch_size, counterVars, failed_calls>>

\* an exception of lines 462-472, outside the try statement (a MemoryError
\* while the record is copied): it escapes transfer_file_safe and is stored
\* in the future
TaskRaises(k) ==
  /\ phase = "transfer"
  /\ k \in DOMAIN task
  /\ task[k].st = "queued"
  /\ \A j \in DOMAIN task : task[j].st = "queued" => k <= j
  /\ Cardinality(Running) < cfg.max_workers
  /\ task' = [task EXCEPT ![k].st = "raised", ![k].raised = TRUE]
  /\ UNCHANGED <<progress_lock, frames, waits, src, cfg, run, phase, scanVars, mirrorVars, dest_folders,
                 uploads, i, batch, batch_size, counterVars, adaptVars,
                 failed_calls>>

TransferErrors == {NetError, Http429, Http404}

\* the download (or export) leg of the current pass ends.  Lines 563-565 of
\* _transfer_google_doc write the progress object of a chunk that arrived
\* into the buffer, which raises TypeError into the handler of line 571;
\* lines 661-662 of _transfer_regular_file raise TimeoutError after a chunk
\* that arrived late
Download(k, o) ==
  /\ phase = "transfer"
  /\ k \in DOMAIN task
  /\ task[k].st = "download"
  /\ IF o = Ok /\ FileList[k].mime_type # GDocMime
     THEN /\ task' = [task EXCEPT ![k].st = "upload"]
          /\ UNCHANGED <<adaptVars, failed_calls, frames>>
     ELSE LET answered == o \in {Ok, Late, LateChunk}
              e == IF ~answered THEN o
                   ELSE IF FileList[k].mime_type = GDocMime THEN TypeError
                   ELSE TimeoutError
          IN /\ Apply(k, AfterInner([task[k] EXCEPT !.errs = Append(@, e)],
                                    FileList[k].mime_type,
                                    ChunkHandler(TRUE, e, task[k].ia, cfg)))
             /\ failed_calls' = IF answered THEN failed_calls
                                ELSE failed_calls \cup {"download"}
  /\ UNCHANGED <<progress_lock, waits, src, cfg, run, phase, scanVars, mirrorVars, dest_folders,
                 uploads, i, batch, batch_size, counterVars>>

\* the upload leg of the current pass ends.  An upload whose last call
\* answered has created the file at the destination.  Lines 711-712 of
\* _transfer_regular_file raise TimeoutError after any next_chunk that
\* answered late: after the last one the file exists, after an earlier one
\* (LateChunk) the loop of line 701 is left with no file created.  The
\* execute() of _transfer_google_doc (601-610) is one call and is not timed
Upload(k, o) ==
  /\ phase = "transfer"
  /\ k \in DOMAIN task
  /\ task[k].st = "upload"
  /\ LET regular == FileList[k].mime_type = RegularMime
         answered == o \in {Ok, Late, LateChunk}
         timed_out == regular /\ o \in {Late, LateChunk}
         created == answered /\ ~(regular /\ o = LateChunk)
         e == IF timed_out THEN TimeoutError ELSE o
     IN /\ IF answered /\ ~timed_out
           THEN Apply(k, Returned(task[k], TRUE, 0, TRUE))
           ELSE Apply(k, AfterInner([task[k] EXCEPT !.errs = Append(@, e)],
                                    FileList[k].mime_type,
                                    ChunkHandler(regular, e, task[k].ia, cfg)))
        /\ uploads' = IF created
                      THEN Append(uploads, [id |-> FileList[k].id,
                                            parent |-> task[k].parent_id,
                                            run |-> run])
                      ELSE uploads
        /\ failed_calls' = IF answered THEN failed_calls
                           ELSE failed_calls \cup {"upload"}
  /\ UNCHANGED <<progress_lock, waits, src, cfg, run, phase, scanVars, mirrorVars, dest_folders,
                 i, batch, batch_size, counterVars>>

\* the upload leg of the current pass is interrupted by a network error of
\* text t, with the wait recorded when the handler calls
\* handle_network_error, which draws jitter s: Upload(k, NetError)
UploadInterruptedBy(k, t, s) ==
  /\ phase = "transfer"
  /\ k \in DOMAIN task
  /\ task[k].st = "upload"
  /\ IsNetworkErrorText(t)
  /\ Apply(k, AfterInner([task[k] EXCEPT !.errs = Append(@, NetError)],
                FileList[k].mime_type,
                ChunkHandler(FileList[k].mime_type = RegularMime, NetError,
                             task[k].ia, cfg)))
  /\ failed_calls' = failed_calls \cup {"upload"}
  /\ waits' = IF task'[k].sleeps > task[k].sleeps
              THEN Append(waits, [error_str |-> t,
                                  category |-> BackoffCategory(t),
                                  attempt |-> task[k].ia, draw |-> s,
                                  wait_time |-> WaitTime(BackoffCategory(t),
                                                         task[k].ia, s)])
              ELSE waits
  /\ UNCHANGED <<progress_lock, src, cfg, run, phase, scanVars, mirrorVars, dest_folders,
                 uploads, i, batch, batch_size, counterVars>>

\* a copy of the main loop that stops the job at the first failed future
CollectAborting(k) ==
  /\ phase = "transfer"
  /\ k \in DOMAIN task
  /\ task[k].st \in {"done", "raised"}
  /\ task' = [task EXCEPT ![k].st = "collected"]
  /\ IF task[k].result
     THEN /\ transferred_files' = transferred_files + 1
          /\ transferred_bytes' = transferred_bytes + FileList[k].size
          /\ UNCHANGED phase
     ELSE /\ phase' = "transfer_failed"
          /\ UNCHANGED <<transferred_files, transferred_bytes>>
  /\ UNCHANGED <<progress_lock, frames, waits, src, cfg, run, scanVars, mirrorVars, dest_folders,
                 uploads, i, batch, batch_size, total_files, total_bytes,
                 adaptVars, failed_calls>>

\* a main loop that counts every completed future
CollectCountingAll(k) ==
  /\ phase = "transfer"
  /\ k \in DOMAIN task
  /\ task[k].st \in {"done", "raised"}
  /\ task' = [task EXCEPT ![k].st = "collected"]
  /\ transferred_files' = transferred_files + 1
  /\ transferred_bytes' = transferred_bytes + FileList[k].size
  /\ UNCHANGED <<progress_lock, frames, waits, src, cfg, run, phase, scanVars, mirrorVars, dest_folders,
                 uploads, i, batch, batch_size, total_files, total_bytes,
                 adaptVars, failed_calls>>

\* a success that is counted by the worker and again by the main thread
CollectCountingTwice(k) ==
  /\ phase = "transfer"
  /\ k \in DOMAIN task
  /\ task[k].st \in {"done", "raised"}
  /\ task' = [task EXCEPT ![k].st = "collected"]
  /\ IF task[k].result
     THEN /\ transferred_files' = transferred_files + 2
          /\ transferred_bytes' = transferred_bytes + 2 * FileList[k].size
     ELSE UNCHANGED <<transferred_files, transferred_bytes>>
  /\ UNCHANGED <<progress_lock, frames, waits, src, cfg, run, phase, scanVars, mirrorVars, dest_folders,
                 uploads, i, batch, batch_size, total_files, total_bytes,
                 adaptVars, failed_calls>>

\* lines 819-826: the main thread takes a completed future; result() of a
\* future that holds an exception raises it into the handler of line 825
Collect(k) ==
  /\ phase = "transfer"
  /\ k \in DOMAIN task
  /\ task[k].st \in {"done", "raised"}
  /\ task' = [task EXCEPT ![k].st = "collected"]
  /\ IF task[k].result
     THEN /\ transferred_files' = transferred_files + 1
          /\ transferred_bytes' = transferred_bytes + FileList[k].size
     ELSE UNCHANGED <<transferred_files, transferred_bytes>>
  /\ UNCHANGED <<progress_lock, frames, waits, src, cfg, run, phase, scanVars, mirrorVars, dest_folders,
                 uploads, i, batch, batch_size, total_files, total_bytes,
                 adaptVars, failed_calls>>

\* a main loop that moves on without waiting for the futures of the batch
EndBatchEarly ==
  /\ phase = "transfer"
  /\ batch # <<>>
  /\ i' = i + batch_size
  /\ batch' = <<>>
  /\ phase' = IF i + batch_size < Len(FileList) THEN "transfer" ELSE "done"
  /\ UNCHANGED <<progress_lock, frames, waits, src, cfg, run, scanVars, mirrorVars, dest_folders, uploads,
                 batch_size, task, counterVars, adaptVars, failed_calls>>

\* a main loop that advances by the batch size of the worker count it reads
\* at the end of the batch
EndBatchRecomputed ==
  /\ phase = "transfer"
  /\ batch # <<>>
  /\ \A n \in 1..Len(batch) : task[batch[n]].st = "collected"
  /\ i' = i + current_workers * 2
  /\ batch' = <<>>
  /\ phase' = IF i + current_workers * 2 < Len(FileList) THEN "transfer" ELSE "done"
  /\ UNCHANGED <<progress_lock, frames, waits, src, cfg, run, scanVars, mirrorVars, dest_folders, uploads,
                 batch_size, task, counterVars, adaptVars, failed_calls>>

\* lines 828-853: the batch is over; after the last one the job ends
EndBatch ==
  /\ phase = "transfer"
  /\ batch # <<>>
  /\ \A n \in 1..Len(batch) : task[batch[n]].st = "collected"
  /\ i' = i + batch_size
  /\ batch' = <<>>
  /\ phase' = IF i + batch_size < Len(FileList) THEN "transfer" ELSE "done"
  /\ UNCHANGED <<progress_lock, frames, waits, src, cfg, run, scanVars, mirrorVars, dest_folders, uploads,
                 batch_size, task, counterVars, adaptVars, failed_calls>>

\* lines 843-853: what the final statistics of transfer_all_files report
FinalStatistics ==
  [files_transferred |-> transferred_files, total_files |-> total_files,
   data_transferred |-> transferred_bytes]

\* lines 1201-1215: what the transfer summary of main reports
TransferSummary ==
  [files_found |-> CountFiles(structure), files_transferred |-> transferred_files,
   warning |-> transferred_files < CountFiles(structure)]

(***************************************************************************)
(* A later run of the tool against the same destination: a new process,    *)
(* whose only memory of the earlier run is the destination account.        *)
(***************************************************************************)
Ended == phase \in {"done", "scan_failed", "mirror_failed", "interrupted"}

(***************************************************************************)
(* The same handlers at the grain of progress_lock: adjust_concurrency     *)
(* (lines 195-211) and update_progress (lines 744-759) as an acquisition,  *)
(* the reads of the shared fields, their writes and the release.           *)
(***************************************************************************)
\* lines 819-823: the main thread takes a completed future and, for a
\* success, arrives at line 746
TakeCompleted(k) ==
  /\ phase = "transfer"
  /\ k \in DOMAIN task
  /\ task[k].st \in {"done", "raised"}
  /\ MainThread \notin DOMAIN frames
  /\ IF task[k].result
     THEN /\ task' = [task EXCEPT ![k].st = "counting"]
          /\ frames' = frames @@ (MainThread :> Frame("acquire", k, TRUE))
     ELSE /\ task' = [task EXCEPT ![k].st = "collected"]
          /\ UNCHANGED frames
  /\ UNCHANGED <<progress_lock, waits, src, cfg, run, phase, scanVars,
                 mirrorVars, dest_folders, uploads, i, batch, batch_size,
                 counterVars, adaptVars, failed_calls>>

\* a thread that enters the block without waiting for the lock
AcquireLockUnguarded(th) ==
  /\ th \in DOMAIN frames
  /\ frames[th].pc = "acquire"
  /\ progress_lock' = th
  /\ frames' = [frames EXCEPT ![th].pc = "load"]
  /\ UNCHANGED <<waits, src, cfg, run, phase, scanVars, mirrorVars,
                 dest_folders, uploads, schedVars, counterVars, adaptVars,
                 failed_calls>>

\* 'with self.progress_lock:' of lines 200 and 746; adjust_concurrency
\* comes to line 200 only with adaptive concurrency on (197-198)
AcquireLock(th) ==
  /\ th \in DOMAIN frames
  /\ frames[th].pc = "acquire"
  /\ th = MainThread \/ cfg.adaptive_concurrency
  /\ progress_lock = NoHolder
  /\ progress_lock' = th
  /\ frames' = [frames EXCEPT ![th].pc = "load"]
  /\ UNCHANGED <<waits, src, cfg, run, phase, scanVars, mirrorVars,
                 dest_folders, uploads, schedVars, counterVars, adaptVars,
                 failed_calls>>

\* the reads of the shared fields in lines 202-209 and 747-748
LockedLoad(th) ==
  /\ th \in DOMAIN frames
  /\ frames[th].pc = "load"
  /\ frames' = [frames EXCEPT ![th] =
                  [@ EXCEPT !.pc = "store",
                            !.error_count = error_count,
                            !.current_workers = current_workers,
                            !.transferred_files = transferred_files,
                            !.transferred_bytes = transferred_bytes]]
  /\ UNCHANGED <<progress_lock, waits, src, cfg, run, phase, scanVars,
                 mirrorVars, dest_folders, uploads, schedVars, counterVars,
                 adaptVars, failed_calls>>

\* the writes of lines 202-210 and 747-748
LockedStore(th) ==
  /\ th \in DOMAIN frames
  /\ frames[th].pc = "store"
  /\ frames' = [frames EXCEPT ![th].pc = "release"]
  /\ IF th = MainThread
     THEN /\ transferred_files' = frames[th].transferred_files + 1
          /\ transferred_bytes' =
               frames[th].transferred_bytes + FileList[frames[th].k].size
          /\ UNCHANGED adaptVars
     ELSE LET a == AdjustConcurrency(cfg, frames[th].success,
                                     frames[th].error_count,
                                     frames[th].current_workers)
          IN /\ error_count' = a.error_count
             /\ current_workers' = a.current_workers
             /\ UNCHANGED <<transferred_files, transferred_bytes>>
  /\ UNCHANGED <<progress_lock, waits, src, cfg, run, phase, scanVars,
                 mirrorVars, dest_folders, uploads, schedVars, total_files,
                 total_bytes, failed_calls>>

\* the end of the with block: adjust_concurrency returns into
\* transfer_file_safe, which returns result; update_progress returns into the
\* loop of line 819
ReleaseLock(th) ==
  /\ th \in DOMAIN frames
  /\ frames[th].pc = "release"
  /\ progress_lock' = NoHolder
  /\ frames' = [t \in DOMAIN frames \ {th} |-> frames[t]]
  /\ task' = [task EXCEPT ![frames[th].k] =
                IF th = MainThread THEN [@ EXCEPT !.st = "collected"]
                ELSE [@ EXCEPT !.st = "done", !.adjusts = @ + 1]]
  /\ UNCHANGED <<waits, src, cfg, run, phase, scanVars, mirrorVars,
                 dest_folders, uploads, i, batch, batch_size, counterVars,
                 adaptVars, failed_calls>>

Threads == {MainThread} \cup {Worker(k) : k \in 1..MaxLockFiles}

\* the process is stopped from outside while transfer_all_files runs: its
\* worker threads and its lock end with it
Interrupt ==
  /\ phase = "transfer"
  /\ phase' = "interrupted"
  /\ frames' = << >>
  /\ progress_lock' = NoHolder
  /\ UNCHANGED <<waits, src, cfg, run, scanVars, mirrorVars, dest_folders, uploads,
                 schedVars, counterVars, adaptVars, failed_calls>>

\* GoogleDriveTransfer.__init__ of the next process, lines 69-80: empty
\* collections, zero counters, a new progress_lock (line 73) that nobody
\* holds, no worker thread, current_workers = max_workers (line 80)
ResetRun ==
  /\ frames' = << >>
  /\ progress_lock' = NoHolder
  /\ all_files' = <<>>
  /\ page_token' = 0
  /\ page_count' = 0
  /\ throttled' = 0
  /\ mi' = 0
  /\ folder_mapping' = << >>
  /\ mirror_outcome' = << >>
  /\ i' = 0
  /\ batch' = <<>>
  /\ batch_size' = 0
  /\ task' = << >>
  /\ transferred_files' = 0
  /\ total_files' = 0
  /\ transferred_bytes' = 0
  /\ total_bytes' = 0
  /\ error_count' = 0
  /\ current_workers' = cfg.max_workers

\* a new process starts create_folder_structure on the same node set; of
\* the stopped process only the destination account remains
RerunMirror ==
  /\ Ended
  /\ run < MaxRuns
  /\ run' = run + 1
  /\ phase' = "mirror"
  /\ ResetRun
  /\ UNCHANGED <<waits, src, cfg, structure, dest_folders, uploads, failed_calls>>

(***************************************************************************)
(* Specifications.                                                         *)
(***************************************************************************)
ScanStep == ScanInvalidRoot \/ \E o \in ListOutcomes : ListPage(o)

MirrorStep == \E qo \in QueryOutcomes, co \in CreateOutcomes : MirrorFolder(qo, co)

\* the steps of transfer_all_files with the outcomes derrs of the download
\* calls and uerrs of the upload calls besides Ok
TransferStepOf(derrs, uerrs) ==
  \/ BeginTransfer
  \/ FormBatch
  \/ \E k \in 1..MaxNodes + MaxFiles : StartTask(k)
  \/ \E k \in 1..MaxNodes + MaxFiles, o \in {Ok} \cup derrs : Download(k, o)
  \/ \E k \in 1..MaxNodes + MaxFiles, o \in {Ok} \cup uerrs : Upload(k, o)
  \/ \E k \in 1..MaxNodes + MaxFiles : Adjust(k)
  \/ \E k \in 1..MaxNodes + MaxFiles : Collect(k)
  \/ EndBatch

TransferStep(errs) == TransferStepOf(errs, errs)

\* main: scan, mirror, transfer
Init ==
  /\ src \in Trees(MaxNodes, {FolderMime, RegularMime}, Names)
  /\ cfg \in {Config(s, PipelineWorkers, PipelineRetries, TRUE) : s \in {RootId, EmptyId}}
  /\ phase = "scan"
  /\ structure = <<>>
  /\ FreshRun
  /\ EmptyDestination

Next == ScanStep \/ MirrorStep \/ TransferStep(TransferErrors)

Spec == Init /\ [][Next]_vars

\* main from the scan under every outcome of the list calls, with one worker
\* and a destination that accepts every call
InitScan ==
  /\ src \in Trees(MaxNodes, {FolderMime, RegularMime}, Names)
  /\ cfg \in {Config(s, 1, 1, TRUE) : s \in {RootId, EmptyId}}
  /\ phase = "scan"
  /\ structure = <<>>
  /\ FreshRun
  /\ EmptyDestination

NextScan == ScanStep \/ MirrorFolder(Ok, Ok) \/ TransferStep({})

SpecScan == InitScan /\ [][NextScan]_vars

\* mirror and transfer on the node set of a whole tree
InitMirror ==
  /\ src \in Trees(MaxNodes, {FolderMime, RegularMime}, Names)
  /\ cfg = Config(RootId, 1, 1, TRUE)
  /\ phase = "mirror"
  /\ structure = CompleteStructure(src)
  /\ CountFiles(structure) > 0
  /\ FreshRun
  /\ EmptyDestination

NextMirror == MirrorStep \/ TransferStep({Http404})

SpecMirror == InitMirror /\ [][NextMirror]_vars

\* the same, run again against the destination the earlier run left
NextRerun == MirrorStep \/ TransferStep({}) \/ Interrupt \/ RerunMirror

SpecRerun == InitMirror /\ [][NextRerun]_vars

\* flat file lists of regular files
FlatTrees(maxn, mimes) ==
  UNION { [1..n -> [name : {<<"a">>}, mime : mimes, parent : {RootId}]] :
            n \in 0..maxn }

\* the scheduler under every worker count
InitSched ==
  /\ src \in FlatTrees(MaxFiles, {RegularMime})
  /\ cfg \in {Config(RootId, w, 1, a) : w \in 1..MaxWorkersCfg, a \in BOOLEAN}
  /\ phase = "mirror"
  /\ structure = CompleteStructure(src)
  /\ FreshRun
  /\ EmptyDestination

NextSched == TransferStep({Http404})

SpecSched == InitSched /\ [][NextSched]_vars

\* the jobs whose summary is read: one worker or the floor of two, and calls
\* that are refused or answered late
InitSummary ==
  /\ src \in FlatTrees(MaxFiles, {RegularMime})
  /\ cfg \in {Config(RootId, w, 1, a) : w \in {1, WorkersFloor}, a \in BOOLEAN}
  /\ phase = "mirror"
  /\ structure = CompleteStructure(src)
  /\ FreshRun
  /\ EmptyDestination

NextSummary ==
  \/ TransferStep({Http404, Late, LateChunk})
  \/ \E k \in 1..MaxNodes + MaxFiles : TaskRaises(k)

SpecSummary == InitSummary /\ [][NextSummary]_vars

\* one or two file transfers under every retry budget
InitTransfer ==
  /\ src \in FlatTrees(MaxTransferFiles, {RegularMime, GDocMime, GOtherMime})
  /\ cfg \in {Config(RootId, 1, r, TRUE) : r \in 1..MaxRetriesCfg}
  /\ phase = "mirror"
  /\ structure = CompleteStructure(src)
  /\ FreshRun
  /\ EmptyDestination

NextTransfer ==
  \/ TransferStep(TransferErrors \cup {Late, LateChunk})
  \/ \E k \in 1..MaxNodes + MaxFiles : TaskRaises(k)

SpecTransfer == InitTransfer /\ [][NextTransfer]_vars

\* long file lists, with or without a folder among them or with a max_files
\* limit that cuts the list, under the smallest worker count that can be
\* reduced: the worker count falls during the first batch and later batches
\* are formed with it
AdaptTrees ==
  { t \in [1..MaxAdaptFiles ->
             [name : {<<"a">>}, mime : {RegularMime, FolderMime}, parent : {RootId}]] :
      \A n \in DOMAIN t : n > 1 => t[n].mime = RegularMime }

InitAdapt ==
  /\ src \in AdaptTrees
  /\ cfg \in {[Config(RootId, WorkersFloor + 1, 1, TRUE) EXCEPT !.max_files = m] :
                m \in {0, MaxAdaptFiles - 1}}
  /\ phase = "mirror"
  /\ structure = CompleteStructure(src)
  /\ CountFiles(structure) > 0
  /\ cfg.max_files # 0 => cfg.max_files < CountFiles(structure)
  /\ FreshRun
  /\ EmptyDestination

NextAdapt ==
  \/ MirrorFolder(Ok, Ok)
  \/ BeginTransfer
  \/ FormBatch
  \/ \E k \in 1..MaxAdaptFiles : StartTask(k)
  \/ \E k \in 1..MaxAdaptFiles : Download(k, Ok)
  \/ \E k \in 1..MaxUnreadable : Download(k, Http404)
  \/ \E k \in 1..MaxAdaptFiles : Upload(k, Ok)
  \/ \E k \in 1..MaxAdaptFiles : Adjust(k)
  \/ \E k \in 1..MaxAdaptFiles : Collect(k)
  \/ EndBatch

SpecAdapt == InitAdapt /\ [][NextAdapt]_vars

\* one long list of regular files under the smallest worker count that can
\* be reduced: the worker count falls and recovers within the job
InitRecover ==
  /\ src \in [1..MaxRecoverFiles ->
               [name : {<<"a">>}, mime : {RegularMime}, parent : {RootId}]]
  /\ cfg = Config(RootId, WorkersFloor + 1, 1, TRUE)
  /\ phase = "mirror"
  /\ structure = CompleteStructure(src)
  /\ FreshRun
  /\ EmptyDestination

NextRecover ==
  \/ BeginTransfer
  \/ FormBatch
  \/ \E k \in 1..MaxRecoverFiles : StartTask(k)
  \/ \E k \in 1..MaxRecoverFiles : Download(k, Ok)
  \/ \E k \in 1..MaxUnreadable : Download(k, Http404)
  \/ \E k \in 1..MaxRecoverFiles : Upload(k, Ok)
  \/ \E k \in 1..MaxRecoverFiles : Adjust(k)
  \/ \E k \in 1..MaxRecoverFiles : Collect(k)
  \/ EndBatch

SpecRecover == InitRecover /\ [][NextRecover]_vars

\* adjust_concurrency by itself, lines 195-211: the n-th task that returns
\* calls it with its result.  The calls are serialised by progress_lock, and
\* any sequence of results is the sequence of some job
CallAdjustConcurrency(success) ==
  /\ Len(task) < MaxAdjustCalls
  /\ LET a == AdjustConcurrency(cfg, success, error_count, current_workers)
     IN /\ error_count' = a.error_count
        /\ current_workers' = a.current_workers
  /\ task' = Append(task, [NewTask EXCEPT !.st = "done", !.result = success,
                                          !.adjusts = 1])
  /\ UNCHANGED <<progress_lock, frames, waits, src, cfg, run, phase, scanVars,
                 mirrorVars, dest_folders, uploads, i, batch, batch_size,
                 counterVars, failed_calls>>

\* the object after __init__ (lines 79-80) under every max_workers and both
\* values of adaptive_concurrency
InitGradual ==
  /\ src = << >>
  /\ cfg \in {Config(RootId, w, 1, a) : w \in 1..MaxWorkersCfg, a \in BOOLEAN}
  /\ phase = "transfer"
  /\ structure = <<>>
  /\ FreshRun
  /\ EmptyDestination

NextGradual == \E success \in BOOLEAN : CallAdjustConcurrency(success)

SpecGradual == InitGradual /\ [][NextGradual]_vars

\* a list of regular files longer than the first batch, under one worker and
\* under the smallest worker count that can be reduced; every submitted task
\* is run and every remote call returns
TerminateFiles == MaxAdaptFiles - 1

InitTerminate ==
  /\ src \in [1..TerminateFiles ->
               [name : {<<"a">>}, mime : {RegularMime}, parent : {RootId}]]
  /\ cfg \in {Config(RootId, w, 1, TRUE) : w \in {1, WorkersFloor + 1}}
  /\ phase = "mirror"
  /\ structure = CompleteStructure(src)
  /\ FreshRun
  /\ EmptyDestination

NextTerminate ==
  \/ BeginTransfer
  \/ FormBatch
  \/ \E k \in 1..MaxAdaptFiles : StartTask(k)
  \/ \E k \in 1..MaxAdaptFiles : Download(k, Ok)
  \/ \E k \in 1..MaxUnreadable : Download(k, Http404)
  \/ \E k \in 1..MaxAdaptFiles : Upload(k, Ok)
  \/ \E k \in 1..MaxAdaptFiles : Adjust(k)
  \/ \E k \in 1..MaxAdaptFiles : Collect(k)
  \/ EndBatch

SpecTerminate ==
  InitTerminate /\ [][NextTerminate]_vars /\ WF_vars(NextTerminate)

\* one batch of regular files under the smallest worker count that can be
\* reduced, with the steps of the workers and of the main thread interleaved
\* at the grain of progress_lock
InitLock ==
  /\ src \in [1..MaxLockFiles ->
               [name : {<<"a">>}, mime : {RegularMime}, parent : {RootId}]]
  /\ cfg = Config(RootId, WorkersFloor + 1, 2, TRUE)
  /\ phase = "mirror"
  /\ structure = CompleteStructure(src)
  /\ FreshRun
  /\ EmptyDestination

NextLock ==
  \/ BeginTransfer
  \/ FormBatch
  \/ \E k \in 1..MaxLockFiles : StartTask(k)
  \/ \E k \in 1..MaxLockFiles, o \in {Ok, Http404, NetError} : Download(k, o)
  \/ \E k \in 1..MaxLockFiles, o \in {Ok, Http404, NetError} : Upload(k, o)
  \/ \E k \in 1..MaxLockFiles : TakeCompleted(k)
  \/ \E th \in Threads : AcquireLock(th)
  \/ \E th \in Threads : LockedLoad(th)
  \/ \E th \in Threads : LockedStore(th)
  \/ \E th \in Threads : ReleaseLock(th)
  \/ EndBatch

SpecLock == InitLock /\ [][NextLock]_vars

\* a job of several batches whose workers fail with transport errors or
\* raise; main calls transfer_all_files only when the scan found a file
InitIsolation ==
  /\ src \in FlatTrees(MaxNodes, {RegularMime, GDocMime})
  /\ cfg = Config(RootId, 1, PipelineRetries, TRUE)
  /\ phase = "mirror"
  /\ structure = CompleteStructure(src)
  /\ CountFiles(structure) > 0
  /\ FreshRun
  /\ EmptyDestination

NextIsolation ==
  \/ TransferStep({NetError})
  \/ \E k \in 1..MaxNodes + MaxFiles : TaskRaises(k)

\* the executor runs every submitted task and the main thread every step
SpecIsolation == InitIsolation /\ [][NextIsolation]_vars /\ WF_vars(NextIsolation)

\* handle_network_error as a function of its arguments, lines 136-191: one
\* direct call with an error of text t, attempt number attempt and jitter
\* draw s.  An error that is_network_error rejects is not waited for (line
\* 191).  waits is the log of the calls made; the calls are independent of
\* one another and are not the calls of one job: the retry loops of the
\* program pass attempt = 0 only, because no transfer is attempted again
\* after its wait
HandleNetworkError(t, attempt, s) ==
  /\ Len(waits) < MaxBackoffCalls
  /\ waits' = IF IsNetworkErrorText(t)
              THEN Append(waits, [error_str |-> t,
                                  category |-> BackoffCategory(t),
                                  attempt |-> attempt, draw |-> s,
                                  wait_time |-> WaitTime(BackoffCategory(t),
                                                         attempt, s)])
              ELSE waits
  /\ UNCHANGED <<progress_lock, frames, src, cfg, run, phase, scanVars,
                 mirrorVars, dest_folders, uploads, schedVars, counterVars,
                 adaptVars, failed_calls>>

\* error texts that carry one signature
SingleSignatureTexts == {{x} : x \in NetworkSignatures \cup SslSignatures}

\* the object after __init__; no call has been made
InitBackoff ==
  /\ src = << >>
  /\ cfg = Config(RootId, 1, 1, TRUE)
  /\ phase = "transfer"
  /\ structure = <<>>
  /\ FreshRun
  /\ EmptyDestination

\* every direct call: each text, attempt number and jitter draw
NextBackoff ==
  \E t \in SingleSignatureTexts, attempt \in 0..MaxAttempt, s \in JitterDraws :
    HandleNetworkError(t, attempt, s)

SpecBackoff == InitBackoff /\ [][NextBackoff]_vars

\* one file whose upload is interrupted once by a network error of every
\* text
InitClassify ==
  /\ src \in FlatTrees(1, {RegularMime, GDocMime})
  /\ cfg = Config(RootId, 1, 2, TRUE)
  /\ phase = "mirror"
  /\ structure = CompleteStructure(src)
  /\ CountFiles(structure) > 0
  /\ FreshRun
  /\ EmptyDestination

NextClassify ==
  \/ TransferStep({})
  \/ \E k \in 1..MaxNodes + MaxFiles :
       /\ k \in DOMAIN task
       /\ task[k].st = "upload"
       /\ \E t \in ErrorTexts, s \in JitterDraws : UploadInterruptedBy(k, t, s)

SpecClassify == InitClassify /\ [][NextClassify]_vars

(***************************************************************************)
(* Properties.                                                             *)
(***************************************************************************)
StructureIds == {structure[k].id : k \in 1..Len(structure)}

SrcFolders == {n \in NodeIds(src) : src[n].mime = FolderMime}
SrcFiles == {n \in NodeIds(src) : src[n].mime # FolderMime}

\* the scanned record of node n
InfoOf(n) == structure[CHOOSE k \in 1..Len(structure) : structure[k].id = n]

\* destination id mapped from a source folder, -1 if there is none
DestOf(n) ==
  IF n = RootId THEN DestRootId
  ELSE IF n \in DOMAIN folder_mapping THEN folder_mapping[n] ELSE -1

RECURSIVE Ancestors(_)
\* the source folders above node n, the root excluded
Ancestors(n) ==
  IF src[n].parent = RootId THEN {}
  ELSE {src[n].parent} \cup Ancestors(src[n].parent)

\* pp is path without its last component
IsParentPathOf(pp, path) ==
  \E n \in 1..Len(path) :
    /\ path[n] = Sep
    /\ \A m \in (n+1)..Len(path) : path[m] # Sep
    /\ pp = SubSeq(path, 1, n - 1)

HasSep(name) == \E k \in 1..Len(name) : name[k] = Sep

\* the transfer of task k has its result
Resolved(k) == task[k].st \in {"adjusting", "done", "collected"}

\* C1: a run without remote failures ends with one destination folder per
\* source folder under the destination of its parent, every source file
\* uploaded under the folder mapped from its parent, succeeded = total =
\* number of files of the source tree
C1_StructurePreserved ==
  (phase = "done" /\ failed_calls = {} /\ cfg.source_folder_id = RootId
     /\ SrcFiles # {}) =>
    /\ \A n \in SrcFolders :
         /\ n \in DOMAIN folder_mapping
         /\ DestOf(src[n].parent) # -1
         /\ folder_mapping[n] \in 1..Len(dest_folders)
         /\ dest_folders[folder_mapping[n]] =
              [name |-> src[n].name, parent |-> DestOf(src[n].parent)]
    /\ \A n \in SrcFiles :
         \E j \in 1..Len(uploads) :
           uploads[j].id = n /\ uploads[j].parent = DestOf(src[n].parent)
    /\ transferred_files = total_files
    /\ total_files = Cardinality(SrcFiles)

\* C2: the scan returns every file and folder below the root, at every depth
C2_ScanComplete ==
  (phase \in {"mirror", "transfer", "done"} /\ cfg.source_folder_id = RootId)
    => StructureIds = NodeIds(src)

\* folder names are plain and no two folders of the source have the same
\* name and the same parent
DistinctSiblings ==
  /\ \A n \in SrcFolders : ~HasSep(src[n].name)
  /\ \A m, n \in SrcFolders :
       (m # n /\ src[m].parent = src[n].parent) => src[m].name # src[n].name

\* C3: for a source of plainly and distinctly named folders, the destination
\* never holds two folders created for the same (name, parent) pair, within
\* a run and across runs
C3_NoDuplicateFolders ==
  DistinctSiblings =>
    \A j, k \in 1..Len(dest_folders) :
      j # k => dest_folders[j] # dest_folders[k]

\* C4: when a folder is processed, the folder above it has its final mapping
\* decision, and a decision never changes afterwards
C4_ParentDecided ==
  \A c \in DOMAIN mirror_outcome :
    src[c].parent # RootId =>
      /\ src[c].parent \in DOMAIN mirror_outcome
      /\ mirror_outcome[src[c].parent] \in {"matched", "created", "create_failed"}

C4_DecisionFinal ==
  \A p \in DOMAIN mirror_outcome :
    /\ p \in DOMAIN mirror_outcome'
    /\ mirror_outcome'[p] = mirror_outcome[p]
    /\ (p \in DOMAIN folder_mapping) = (p \in DOMAIN folder_mapping')
    /\ p \in DOMAIN folder_mapping => folder_mapping'[p] = folder_mapping[p]

C4_ParentBeforeChild == []C4_ParentDecided /\ [][C4_DecisionFinal]_vars

\* a folder was processed whose parent folder has a separator in its name
C4_Witness ==
  \E c \in DOMAIN mirror_outcome :
    /\ src[c].parent # RootId
    /\ HasSep(src[src[c].parent].name)
    /\ mirror_outcome[c] = "created"

\* C5: a folder whose creation failed stays unmapped and every file directly
\* in it is uploaded under the destination root and counted as succeeded
C5_FallbackToRoot ==
  (phase \in {"done", "mirror_failed"} /\ failed_calls \subseteq {"create"}) =>
    \A b \in DOMAIN mirror_outcome :
      mirror_outcome[b] \in {"create_failed", "create_raised"} =>
        /\ b \notin DOMAIN folder_mapping
        /\ \A n \in SrcFiles :
             src[n].parent = b =>
               /\ \E j \in 1..Len(uploads) :
                    uploads[j].id = n /\ uploads[j].parent = DestRootId
               /\ \E k \in DOMAIN task :
                    FileList[k].id = n /\ task[k].st = "collected" /\ task[k].result

\* C6 as claimed: a file with an unmapped folder anywhere above it is
\* uploaded under the destination root
C6_AnyAncestorFallback ==
  \A j \in 1..Len(uploads) :
    (\E a \in Ancestors(uploads[j].id) : a \notin DOMAIN folder_mapping)
      => uploads[j].parent = DestRootId

\* C6 amended: a file is uploaded under the destination root when no mapped
\* folder has the file's parent path
C6_ParentByPathFallback ==
  \A j \in 1..Len(uploads) :
    (\A n \in StructureIds :
        (IsFolder(InfoOf(n)) /\ IsParentPathOf(InfoOf(n).path, InfoOf(uploads[j].id).path))
          => n \notin DOMAIN folder_mapping)
      => uploads[j].parent = DestRootId

\* a file directly in an unmapped folder has been uploaded
C6_Witness ==
  \E j \in 1..Len(uploads) :
    /\ src[uploads[j].id].parent # RootId
    /\ \E n \in StructureIds :
         IsFolder(InfoOf(n)) /\ IsParentPathOf(InfoOf(n).path, InfoOf(uploads[j].id).path)
    /\ \A n \in StructureIds :
         (IsFolder(InfoOf(n)) /\ IsParentPathOf(InfoOf(n).path, InfoOf(uploads[j].id).path))
           => n \notin DOMAIN folder_mapping

\* C7: no failure of one folder's existence query or create call aborts the
\* mirror
C7_MirrorNeverThrows == phase # "mirror_failed"

\* C8 as claimed: 2 <= currentWorkers <= maxWorkers
C8_WorkersInRange ==
  2 <= current_workers /\ current_workers <= cfg.max_workers

\* C8 amended: min(2, maxWorkers) <= currentWorkers <= maxWorkers
C8_WorkersInClampedRange ==
  Min(2, cfg.max_workers) <= current_workers /\ current_workers <= cfg.max_workers

\* a further failure arrived with the worker count already at the floor
C8_Witness ==
  cfg.max_workers >= 3 /\ current_workers = 2 /\ error_count >= 4

\* C9: a logical transfer makes at most maxRetries download-then-upload passes
C9_AtMostMaxRetries ==
  \A k \in DOMAIN task : task[k].passes <= cfg.max_retries

\* a transfer used its whole budget of one attempt on an interrupted upload
C9_Witness ==
  \E k \in DOMAIN task :
    /\ task[k].passes = cfg.max_retries
    /\ task[k].errs = <<NetError>>
    /\ "upload" \in failed_calls
    /\ ~task[k].result
    /\ task[k].st = "collected"

IsRateLimited(e) == IsHttpError(e) /\ e.status \in RetryStatuses

\* C10: with maxRetries = 3, a transfer whose only failures are one or two
\* rate-limited responses resolves Success on the next attempt, with one
\* backoff sleep for each failure
C10_RateLimitRetried ==
  \A k \in DOMAIN task :
    ( /\ cfg.max_retries = 3
      /\ Resolved(k)
      /\ Len(task[k].errs) \in 1..2
      /\ \A n \in 1..Len(task[k].errs) : IsRateLimited(task[k].errs[n]) )
    => /\ task[k].result
       /\ task[k].passes = Len(task[k].errs) + 1
       /\ task[k].sleeps = Len(task[k].errs)

Succeeded == {k \in DOMAIN task : task[k].result}

\* C11: a failed transfer never aborts the job: every job that starts its
\* transfers reaches the final summary, and at the summary every file of
\* file_list has been dispatched and collected and only the transfers that
\* returned True are counted as succeeded
C11_AllDispatchedAtSummary ==
  (phase = "done" /\ total_files > 0) =>
    /\ DOMAIN task = 1..Len(FileList)
    /\ \A k \in DOMAIN task :
         /\ task[k].st = "collected"
         /\ task[k].submitted = 1
         /\ task[k].raised \/ task[k].passes >= 1
    /\ transferred_files = Cardinality(Succeeded)

C11_FailureIsolated ==
  /\ []C11_AllDispatchedAtSummary
  /\ (phase = "transfer") ~> (phase = "done")

\* the first transfer of the first batch failed on a transport error after
\* one backoff wait, the second raised, and a file of the next batch was
\* still transferred
C11_Witness ==
  /\ phase = "done"
  /\ Len(FileList) = 3
  /\ task[1].errs = <<NetError>>
  /\ task[1].sleeps = 1
  /\ ~task[1].result
  /\ task[2].raised
  /\ task[3].result
  /\ transferred_files = 1

InFlight(k) ==
  task[k].st \in {"queued", "download", "upload", "adjusting", "done", "raised"}

\* C12: tasks of earlier batches are resolved and collected and tasks of
\* later batches are not submitted while a batch is being processed; when no
\* batch is open (the moment a batch is formed) no transfer task is in flight
C12_BatchBarrier ==
  phase = "transfer" =>
    /\ \A k \in DOMAIN task :
         /\ k <= i => task[k].st = "collected"
         /\ k > i + Len(batch) => task[k].st = "new"
         /\ InFlight(k) => \E n \in 1..Len(batch) : batch[n] = k
    /\ batch = <<>> => \A k \in DOMAIN task : ~InFlight(k)

\* a task of the second batch is running after a failure in the first batch
C12_Witness ==
  /\ phase = "transfer"
  /\ i > 0
  /\ \E k \in Running : k > i
  /\ \E k \in DOMAIN task : k <= i /\ ~task[k].result

\* current_batch_workers of the batch being processed
CurrentBatchWorkers == batch_size \div 2

\* C13: within a batch, the number of transfers running at once never
\* exceeds the current_workers value read when the batch was formed
C13_ConcurrencyWithinBatchWorkers ==
  (phase = "transfer" /\ batch # <<>>) =>
    Cardinality(Running) <= CurrentBatchWorkers

\* number of tasks transfer_all_files has to submit
ExpectedTotal ==
  IF cfg.max_files # 0
  THEN Min(Cardinality(SrcFiles), cfg.max_files) ELSE Cardinality(SrcFiles)

\* C14: there is one task for each of the first max_files files of the node
\* set (all of them without a limit) and none for a folder; the files up to
\* the end of the current batch have been submitted once and the later ones
\* not yet, and at the summary every task has been submitted once
C14_ExactlyOnceDispatch ==
  phase \in {"transfer", "done"} =>
    LET fl == FileList
        ids == {fl[k].id : k \in 1..Len(fl)}
        last == i + Len(batch)
    IN /\ DOMAIN task = 1..ExpectedTotal
       /\ Len(fl) = ExpectedTotal
       /\ ids \subseteq SrcFiles
       /\ Cardinality(ids) = Len(fl)
       /\ \A k \in DOMAIN task :
            /\ task[k].submitted <= 1
            /\ k <= last => task[k].submitted = 1
            /\ k > last => task[k].submitted = 0
            /\ phase = "done" => task[k].submitted = 1

\* a job with a folder in its node set whose batch size fell after the
\* first batch and rose again: every file was submitted once
C14_Witness ==
  /\ phase = "done"
  /\ SrcFolders # {}
  /\ batch_size = 2 * WorkersFloor
  /\ current_workers = WorkersFloor + 1
  /\ i > Len(FileList)
  /\ \A k \in DOMAIN task : task[k].submitted = 1

\* the same under a max_files limit
C14_WitnessLimited ==
  /\ phase = "done"
  /\ cfg.max_files # 0
  /\ Len(FileList) < Cardinality(SrcFiles)
  /\ batch_size = 2 * WorkersFloor

RECURSIVE SumSizes(_)
\* sum of the sizes of the files at the positions S of file_list
SumSizes(S) ==
  IF S = {} THEN 0
  ELSE LET k == CHOOSE x \in S : TRUE
       IN FileList[k].size + SumSizes(S \ {k})

\* C15: at the summary, total is the number of files dispatched, succeeded
\* the number of transfers that returned True, each of which has its file at
\* the destination, and transferred bytes the sum of the sizes of exactly
\* those files
C15_SummaryExact ==
  phase = "done" =>
    /\ total_files = Cardinality(DOMAIN task)
    /\ total_files = ExpectedTotal
    /\ total_bytes = SumSizes(DOMAIN task)
    /\ transferred_files = Cardinality(Succeeded)
    /\ transferred_bytes = SumSizes(Succeeded)
    /\ \A k \in DOMAIN task :
         task[k].result => \E j \in 1..Len(uploads) : uploads[j].id = FileList[k].id

\* a job of two batches ended with failed and successful transfers in both:
\* the first failed after its upload had created the file, the last raised
\* before its first attempt
C15_Witness ==
  /\ phase = "done"
  /\ Len(FileList) = 4
  /\ batch_size = 2
  /\ ~task[1].result /\ task[2].result /\ task[3].result /\ ~task[4].result
  /\ \E j \in 1..Len(uploads) : uploads[j].id = FileList[1].id
  /\ task[4].raised
  /\ transferred_bytes = FileList[2].size + FileList[3].size

\* the files whose transfer did not return True, with the errors they met
FailedItems ==
  {[id |-> FileList[k].id, errs |-> task[k].errs] : k \in DOMAIN task \ Succeeded}

\* C16: when a job ends with failed transfers, its final summary has a list
\* of failed items that names exactly the failed files with their reasons
C16_FailedListReported ==
  (phase = "done" /\ Succeeded # DOMAIN task) =>
    \/ /\ "failed_items" \in DOMAIN FinalStatistics
       /\ FinalStatistics.failed_items = FailedItems
    \/ /\ "failed_items" \in DOMAIN TransferSummary
       /\ TransferSummary.failed_items = FailedItems

\* number of pages of the listing of the root folder
RootPages ==
  LET n == Len(RemoteList(src, RootId))
  IN IF n = 0 THEN 1 ELSE (n + PageSize - 1) \div PageSize

NothingCreated ==
  /\ dest_folders = <<>>
  /\ uploads = <<>>
  /\ folder_mapping = << >>
  /\ task = << >>

\* C17: with an empty root id the scan fails before any list call; a run
\* goes on after the scan only if every list call was answered or throttled;
\* a failed scan has created no folder and started no transfer
C17_ScanFailureState ==
  /\ cfg.source_folder_id = EmptyId =>
       /\ phase \in {"scan", "scan_failed"}
       /\ page_count = 0
  /\ phase \in {"mirror", "transfer", "done"} =>
       page_count = throttled + RootPages
  /\ phase = "scan_failed" => NothingCreated

\* a failed scan is the end of the run
C17_ScanFailureFinal == phase = "scan_failed" => phase' = "scan_failed"

C17_ScanFailureFatal == []C17_ScanFailureState /\ [][C17_ScanFailureFinal]_vars

\* the call for the second page failed with a status that is not retried
C17_Witness ==
  /\ phase = "scan_failed"
  /\ cfg.source_folder_id = RootId
  /\ Len(all_files) = PageSize
  /\ page_token = PageSize
  /\ page_count = 2
  /\ throttled = 0

\* the validation refused an empty root id
C17_WitnessEmptyRoot ==
  phase = "scan_failed" /\ cfg.source_folder_id = EmptyId

\* C18: while the root is listed, the items collected are the listing up to
\* the continuation token, each once and in order; a throttled call leaves
\* the token and the items alone; a finished listing is the whole listing
C18_ListedPrefix ==
  cfg.source_folder_id = RootId =>
    /\ phase = "scan" =>
         all_files = SubSeq(RemoteList(src, RootId), 1, page_token)
    /\ phase \in {"mirror", "transfer", "done"} =>
         all_files = RemoteList(src, RootId)

C18_SamePageRetried ==
  throttled' > throttled => UNCHANGED <<all_files, page_token>>

C18_PageLevelRetry == []C18_ListedPrefix /\ [][C18_SamePageRetried]_vars

\* a listing of two pages ended after throttled calls for the second page
C18_Witness ==
  /\ phase = "mirror"
  /\ "list_next" \in failed_calls
  /\ throttled = MaxThrottle
  /\ Len(all_files) > PageSize
  /\ all_files = RemoteList(src, RootId)

\* neither a retried status nor a transport error
IsPermanent(e) == ~IsRateLimited(e) /\ ~IsNetworkError(e)

\* C19: a permanent error ends the transfer at once: it is the last error of
\* the task, the task is resolved as failed, no pass and no backoff sleep
\* follows it; a task whose first error is permanent made one pass and slept
\* not at all
C19_PermanentNotRetried ==
  \A k \in DOMAIN task :
    \A n \in 1..Len(task[k].errs) :
      IsPermanent(task[k].errs[n]) =>
        /\ n = Len(task[k].errs)
        /\ Resolved(k)
        /\ ~task[k].result
        /\ task[k].passes = n
        /\ task[k].sleeps = n - 1

\* with attempts left, a transfer failed on a permanent error of its first pass
C19_Witness ==
  \E k \in DOMAIN task :
    /\ cfg.max_retries = 3
    /\ task[k].errs = <<Http404>>
    /\ Resolved(k)
    /\ task[k].passes = 1
    /\ task[k].sleeps = 0

\* positions of the destination files uploaded for source file n
UploadsOf(n) == {j \in 1..Len(uploads) : uploads[j].id = n}

UploadsOfRun(r) == {j \in 1..Len(uploads) : uploads[j].run = r}

\* C20: when the first run was stopped after it had uploaded some of the
\* files and the second run ends, every source file is at the destination
\* exactly once
C20_ResumeSkipsUploaded ==
  ( /\ run = 2
    /\ phase = "done"
    /\ UploadsOfRun(1) # {}
    /\ Cardinality(UploadsOfRun(1)) < Len(FileList) ) =>
    \A n \in SrcFiles : Cardinality(UploadsOf(n)) = 1

MirrorReturned == phase \in {"transfer", "done"}

\* C21: after the mirror has returned, a folder that was matched or created
\* is mapped to a destination folder of its name under the destination
\* parent resolved for it, a created one to a folder of this run's making;
\* a folder whose create call failed, and no other, is unmapped
C21_MappingRecordsOutcome ==
  MirrorReturned =>
    /\ DOMAIN mirror_outcome = {structure[k].id : k \in {j \in 1..Len(structure) : IsFolder(structure[j])}}
    /\ \A f \in DOMAIN mirror_outcome :
         /\ mirror_outcome[f] \in {"matched", "created", "create_failed"}
         /\ mirror_outcome[f] = "create_failed" <=> f \notin DOMAIN folder_mapping
         /\ f \in DOMAIN folder_mapping =>
              /\ folder_mapping[f] \in 1..Len(dest_folders)
              /\ dest_folders[folder_mapping[f]] =
                   [name |-> InfoOf(f).name,
                    parent |-> MirrorParentId(InfoOf(f), structure, folder_mapping, cfg)]
    /\ \A f, g \in DOMAIN mirror_outcome :
         (f # g /\ mirror_outcome[f] = "created" /\ g \in DOMAIN folder_mapping
            /\ mirror_outcome[g] = "created") => folder_mapping[f] # folder_mapping[g]

\* the mirror returned with a created folder and a folder matched to it
C21_Witness ==
  /\ MirrorReturned
  /\ \E f, g \in DOMAIN mirror_outcome :
       /\ mirror_outcome[f] = "created"
       /\ mirror_outcome[g] = "matched"
       /\ folder_mapping[g] = folder_mapping[f]

\* the mirror returned with a folder whose creation failed and a folder
\* created after it
C21_WitnessCreateFailed ==
  /\ MirrorReturned
  /\ \E f, h \in DOMAIN mirror_outcome :
       /\ mirror_outcome[h] = "create_failed"
       /\ mirror_outcome[f] = "created"
       /\ src[f].parent = h

\* base_path of the call of get_folder_structure in main
BasePath == <<>>

\* position of node n in the node set, which keeps insertion order
PosOf(n) == CHOOSE k \in 1..Len(structure) : structure[k].id = n

\* the path of the folder a node was listed under
PathAbove(n) ==
  IF InfoOf(n).parent = RootId THEN BasePath ELSE InfoOf(InfoOf(n).parent).path

\* C22 as claimed: every node's path is its parent's path, "/" and its name,
\* children of the root included
C22_PathIsParentSlashName ==
  \A n \in StructureIds :
    InfoOf(n).path = PathAbove(n) \o <<Sep>> \o InfoOf(n).name

\* C22 amended: a child of the root has its name as path, every other node
\* its parent's path, "/" and its name; a node is in the node set only with
\* its parent folder, which was entered before it
C22_PathFromParent ==
  \A n \in StructureIds :
    /\ InfoOf(n).parent = RootId => InfoOf(n).path = InfoOf(n).name
    /\ InfoOf(n).parent # RootId =>
         /\ InfoOf(n).parent \in StructureIds
         /\ IsFolder(InfoOf(InfoOf(n).parent))
         /\ PosOf(InfoOf(n).parent) < PosOf(n)
         /\ InfoOf(n).path =
              InfoOf(InfoOf(n).parent).path \o <<Sep>> \o InfoOf(n).name

\* the node set holds a file two folders below the root, under a folder
\* whose name has a separator
C22_Witness ==
  \E n \in StructureIds :
    /\ ~IsFolder(InfoOf(n))
    /\ InfoOf(n).parent # RootId
    /\ HasSep(InfoOf(InfoOf(n).parent).name)
    /\ InfoOf(InfoOf(n).parent).parent # RootId
    /\ phase = "done"

\* a transfer has called adjust_concurrency(False) in this step
AdjustedOnFailure ==
  \E k \in DOMAIN task :
    /\ k \in DOMAIN task'
    /\ task'[k].adjusts = task[k].adjusts + 1
    /\ ~task'[k].result

\* C23 as claimed: a failure under adaptive concurrency raises the counter by
\* one and lowers the worker count only when the raised counter is 3
C23_DecrementOnlyAtThree ==
  (cfg.adaptive_concurrency /\ AdjustedOnFailure) =>
    /\ error_count' = error_count + 1
    /\ current_workers' # current_workers =>
         /\ error_count' = 3
         /\ current_workers' = Max(WorkersFloor, current_workers - 1)

\* C23 as claimed, over every step: a failure that takes the counter past 3
\* does not lower the worker count again
C23_DecrementOnceOnly == [][C23_DecrementOnlyAtThree]_vars

\* C23 amended: a failure under adaptive concurrency raises the counter by
\* one and lowers the worker count by one whenever the raised counter is 3
\* or more and the worker count is above 2
C23_DecrementFromThree ==
  (cfg.adaptive_concurrency /\ AdjustedOnFailure) =>
    /\ error_count' = error_count + 1
    /\ current_workers' =
         IF error_count' >= 3 /\ current_workers > WorkersFloor
         THEN current_workers - 1 ELSE current_workers

\* C23 amended, over every step: each failure that leaves the counter at 3 or
\* more lowers the worker count by one while it is above 2
C23_DecrementWhileAtLeastThree == [][C23_DecrementFromThree]_vars

\* a fourth failure lowered the worker count a second time
C23_Witness ==
  /\ cfg.adaptive_concurrency
  /\ cfg.max_workers = 4
  /\ error_count = 4
  /\ current_workers = 2

\* a task has called adjust_concurrency(True) in this step
AdjustedOnSuccess ==
  \E k \in DOMAIN task' :
    /\ task'[k].adjusts = (IF k \in DOMAIN task THEN task[k].adjusts ELSE 0) + 1
    /\ task'[k].result

\* one step of gradual recovery: the worker count moves by at most one, the
\* counter is never negative and falls by at most one, and the worker count
\* grows only on a success that leaves the counter at 0 below max_workers
C24_RecoveryStep ==
  /\ current_workers' - current_workers \in {-1, 0, 1}
  /\ error_count >= 0 /\ error_count' >= 0
  /\ error_count' >= error_count - 1
  /\ current_workers' > current_workers =>
       /\ AdjustedOnSuccess
       /\ error_count' = 0
       /\ error_count <= 1
       /\ current_workers < cfg.max_workers

\* C24: recovery is gradual: every step changes current_workers by at most 1,
\* current_workers grows only on a task success that leaves the error counter
\* at 0 while current_workers < max_workers, the counter is never negative
\* and falls by one per success, so n failures need n successes before growth
C24_GradualRecovery == [][C24_RecoveryStep]_vars

\* under max_workers two above the floor, four failures took the worker
\* count down to the floor and four successes have since worked the counter
\* down to 0 and raised the worker count by one, to less than max_workers
C24_Witness ==
  /\ cfg.adaptive_concurrency
  /\ cfg.max_workers = WorkersFloor + 2
  /\ Len(task) = 8
  /\ \A n \in 1..4 : ~task[n].result
  /\ \A n \in 5..8 : task[n].result
  /\ error_count = 0
  /\ current_workers = WorkersFloor + 1

\* a submitted task of the current batch has not returned yet
BatchInFlight ==
  \E n \in 1..Len(batch) :
    task[batch[n]].st \in {"queued", "download", "upload", "adjusting"}

C25_NoChangeInFlight == (BatchInFlight /\ BatchInFlight') => current_workers' = current_workers

\* C25 as claimed: while any task of a batch is in flight, current_workers
\* does not change
C25_WorkersFixedInFlight == [][C25_NoChangeInFlight]_vars

C25_BarrierStep ==
  /\ (batch # <<>> /\ batch' # <<>>) => (batch' = batch /\ batch_size' = batch_size)
  /\ (batch = <<>> /\ batch' # <<>>) =>
       /\ batch_size' = 2 * current_workers
       /\ Len(batch') = Min(batch_size', Len(FileList) - i)
  /\ current_workers' # current_workers =>
       /\ AdjustedOnSuccess \/ AdjustedOnFailure
       /\ batch_size' = batch_size

\* C25 amended: the worker count is read only between batches: a batch is
\* sized as twice current_workers when it is formed and keeps its size and
\* members until the barrier, while current_workers itself changes as soon as
\* a task of the batch returns, without touching the batch in flight
C25_BatchSizedAtBarrier == [][C25_BarrierStep]_vars

\* a returned task has changed current_workers while another task of the
\* same batch is still in flight
C25_Witness ==
  /\ BatchInFlight
  /\ batch_size # 2 * current_workers
  /\ \E n \in 1..Len(batch) : task[batch[n]].st = "done" /\ task[batch[n]].adjusts > 0

\* C26: with adaptive concurrency disabled no outcome of any task changes
\* current_workers or the error counter: current_workers stays max_workers,
\* the counter stays 0, and every batch holds max_workers * 2 files or, for
\* the last one, the files that are left
C26_DisabledIsInert ==
  (~cfg.adaptive_concurrency /\ phase \in {"transfer", "done"}) =>
    /\ current_workers = cfg.max_workers
    /\ error_count = 0
    /\ batch # <<>> =>
         /\ batch_size = cfg.max_workers * 2
         /\ Len(batch) = Min(cfg.max_workers * 2, Len(FileList) - i)

\* a run without adaptive concurrency has ended after two batches, three
\* failed transfers and a successful one
C26_Witness ==
  /\ ~cfg.adaptive_concurrency
  /\ phase = "done"
  /\ i >= 2 * batch_size
  /\ total_files - transferred_files >= 3
  /\ transferred_files >= 1
  /\ \A k \in DOMAIN task : task[k].adjusts = 1

\* the parent the create call of source folder f was given
CreateParentOf(f) == dest_folders[folder_mapping[f]].parent

CreatedFolders == {f \in DOMAIN mirror_outcome : mirror_outcome[f] = "created"}

\* C27 as claimed: a created folder with a parent component in its path lies
\* under the mapped destination of a folder with that parent path, and only
\* folders without a parent component are created under the destination root
C27_NestedNeverUnderRoot ==
  \A f \in CreatedFolders :
    IF ParentPath(InfoOf(f).path) = <<>>
    THEN CreateParentOf(f) = DestRootId
    ELSE /\ CreateParentOf(f) # DestRootId
         /\ \E n \in StructureIds :
              /\ IsFolder(InfoOf(n))
              /\ InfoOf(n).path = ParentPath(InfoOf(f).path)
              /\ n \in DOMAIN folder_mapping
              /\ CreateParentOf(f) = folder_mapping[n]

\* C27 amended: a created folder lies under the mapped destination of the
\* first folder of the node set that has its parent path, and under the
\* destination root when it is top-level, when no folder has that path or
\* when that folder is unmapped
C27_ParentByPathOrRoot ==
  \A f \in CreatedFolders :
    LET pp == ParentPath(InfoOf(f).path)
        fs == FoldersOf(structure)
        k == FirstWithPath(fs, pp)
    IN CreateParentOf(f) =
         IF pp # <<>> /\ k # 0 /\ fs[k].id \in DOMAIN folder_mapping
         THEN folder_mapping[fs[k].id]
         ELSE DestRootId

\* a nested folder was created under the destination root after the creation
\* of its parent failed
C27_Witness ==
  \E f \in CreatedFolders :
    /\ InfoOf(f).parent # RootId
    /\ mirror_outcome[InfoOf(f).parent] = "create_failed"
    /\ CreateParentOf(f) = DestRootId

\* a nested folder was created under the destination of its parent
C27_WitnessMapped ==
  \E f \in CreatedFolders :
    /\ InfoOf(f).parent # RootId
    /\ InfoOf(f).parent \in DOMAIN folder_mapping
    /\ CreateParentOf(f) = folder_mapping[InfoOf(f).parent]
    /\ CreateParentOf(f) # DestRootId

\* C28: a file whose source parent folder has an entry in folder_mapping is
\* uploaded under that entry, also when folders share a path
C28_UploadUnderMappedParent ==
  \A j \in 1..Len(uploads) :
    InfoOf(uploads[j].id).parent \in DOMAIN folder_mapping =>
      uploads[j].parent = folder_mapping[InfoOf(uploads[j].id).parent]

\* C29: a regular-file transfer interrupted by a retryable network error on
\* an attempt that is not the last is retried as a whole: it resolves failed
\* after a network error only when that error hit its last attempt
C29_InterruptedIsRetried ==
  \A k \in DOMAIN task :
    ( /\ FileList[k].mime_type = RegularMime
      /\ Resolved(k)
      /\ ~task[k].result
      /\ task[k].errs # <<>>
      /\ IsNetworkError(task[k].errs[Len(task[k].errs)]) ) =>
      task[k].passes = cfg.max_retries

\* the largest wait of category c, in units of 1 / WaitScale seconds
MaxWait(c) == c.max_delay * WaitScale

\* the waits of calls m and n are both below the maximum of their category
BelowMax(m, n) ==
  /\ waits[m].wait_time < MaxWait(waits[m].category)
  /\ waits[n].wait_time < MaxWait(waits[n].category)

ResetAbortSignatures ==
  { "connectionreseterror", "connectionabortederror", "connection reset by peer",
    "connection aborted", "incompleteread" }

\* C31: an error whose signatures are those of a connection reset or abort
\* is backed off with the pair of the connection reset category, and every
\* error with exactly one category's pair
C31_ResetAbortClassified ==
  \A n \in 1..Len(waits) :
    /\ waits[n].category \in BackoffCategories
    /\ waits[n].error_str \subseteq ResetAbortSignatures =>
         /\ waits[n].category = CategoryNamed("reset")
         /\ waits[n].wait_time =
              WaitTime(CategoryNamed("reset"), waits[n].attempt, waits[n].draw)

\* C32: a page listing that keeps being throttled is retried at most
\* max_retries times, after which the scan fails
C32_ThrottleBudget ==
  throttled > cfg.max_retries => phase = "scan_failed"

\* at the final summary every task of file_list is resolved and collected
C33_AllResolved ==
  phase = "done" =>
    /\ DOMAIN task = 1..Len(FileList)
    /\ \A k \in DOMAIN task : task[k].st = "collected" /\ task[k].adjusts = 1

\* a formed batch is not empty, the index grows when a batch ends, and the
\* final summary is the end of the job
C33_IndexAdvances ==
  /\ (batch = <<>> /\ batch' # <<>>) => batch_size' >= 1
  /\ (batch # <<>> /\ batch' = <<>>) => i' > i
  /\ i' >= i
  /\ phase = "done" => phase' = "done"

\* C33: transfer_all_files terminates: under any outcomes of the tasks and
\* any changes of current_workers every batch is resolved, the index
\* advances with every batch, and the job reaches its final summary with
\* every task resolved
C33_TransferAllTerminates ==
  /\ []C33_AllResolved
  /\ [][C33_IndexAdvances]_vars
  /\ <>(phase = "done")

\* a job ended whose first batch brought the worker count down and whose
\* second batch was formed with the smaller count
C33_Witness ==
  /\ phase = "done"
  /\ cfg.max_workers = WorkersFloor + 1
  /\ batch_size = 2 * WorkersFloor
  /\ i >= Len(FileList)
  /\ \E k \in DOMAIN task : ~task[k].result
  /\ \E k \in DOMAIN task : task[k].result


\* the values of the error counter and of current_workers after ns success
\* adjustments and nf failure adjustments applied one at a time, in every
\* order, to a
RECURSIVE SerialResults(_, _, _)
SerialResults(ns, nf, a) ==
  IF ns = 0 /\ nf = 0 THEN {a}
  ELSE (IF ns = 0 THEN {}
        ELSE SerialResults(ns - 1, nf,
               AdjustConcurrency(cfg, TRUE, a.error_count, a.current_workers)))
       \cup
       (IF nf = 0 THEN {}
        ELSE SerialResults(ns, nf - 1,
               AdjustConcurrency(cfg, FALSE, a.error_count, a.current_workers)))

\* the tasks of the first batch whose worker has returned
FirstBatchReturned ==
  /\ phase = "transfer"
  /\ i = 0
  /\ batch # <<>>
  /\ \A n \in 1..Len(batch) :
       task[batch[n]].st \in {"done", "counting", "collected"}

BatchResults(b) ==
  Cardinality({n \in 1..Len(batch) :
                 task[batch[n]].adjusts = 1 /\ task[batch[n]].result = b})

C34_SerialOutcome ==
  /\ FirstBatchReturned =>
       [error_count |-> error_count, current_workers |-> current_workers]
         \in SerialResults(BatchResults(TRUE), BatchResults(FALSE),
               [error_count |-> 0, current_workers |-> cfg.max_workers])
  /\ phase = "transfer" =>
       LET counted == {k \in DOMAIN task : task[k].st = "collected"
                                            /\ task[k].result}
                        \cup {frames[th].k : th \in {t \in DOMAIN frames :
                                t = MainThread /\ frames[t].pc = "release"}}
       IN /\ transferred_files = Cardinality(counted)
          /\ transferred_bytes = SumSizes(counted)

C34_MutationInLock ==
  (\/ error_count' # error_count
   \/ current_workers' # current_workers
   \/ transferred_files' # transferred_files
   \/ transferred_bytes' # transferred_bytes)
  => /\ progress_lock # NoHolder
     /\ progress_lock' = progress_lock
     /\ progress_lock \in DOMAIN frames
     /\ frames[progress_lock].pc = "store"

\* C34: the progress counters, the error counter and current_workers change
\* only in a step of the thread that holds progress_lock, and no update is
\* lost: when the workers of a batch have returned, the error counter and
\* current_workers are what the adjustments of the batch give when applied
\* one at a time in some order, and the progress counters count every
\* collected success
C34_UpdatesSerialized == []C34_SerialOutcome /\ [][C34_MutationInLock]_vars

\* a failure adjustment has been stored under the lock, after another one,
\* while a third worker waits for the lock
C34_Witness ==
  /\ progress_lock \in DOMAIN frames
  /\ progress_lock # MainThread
  /\ frames[progress_lock].pc = "release"
  /\ ~frames[progress_lock].success
  /\ error_count = 2
  /\ \E th \in DOMAIN frames : th # MainThread /\ frames[th].pc = "acquire"
\* the thread that holds progress_lock is inside the with block of
\* adjust_concurrency or of update_progress
C35_HolderInBlock ==
  progress_lock # NoHolder =>
    /\ progress_lock \in DOMAIN frames
    /\ frames[progress_lock].pc \in {"load", "store", "release"}
    /\ phase = "transfer"
    /\ task[frames[progress_lock].k].st =
         IF progress_lock = MainThread THEN "counting" ELSE "adjusting"

\* no remote call of the holder returns and no backoff sleep of the holder
\* is taken in a step that starts with the lock held
C35_HolderStep ==
  progress_lock # NoHolder =>
    /\ waits' = waits
    /\ IF progress_lock = MainThread
       THEN /\ page_count' = page_count
            /\ throttled' = throttled
            /\ mi' = mi
            /\ dest_folders' = dest_folders
       ELSE LET k == progress_lock.k
            IN /\ task'[k].passes = task[k].passes
               /\ task'[k].sleeps = task[k].sleeps
               /\ task'[k].errs = task[k].errs
               /\ \A n \in (Len(uploads) + 1)..Len(uploads') :
                    uploads'[n].id # FileList[k].id

\* C35: the thread that holds progress_lock is updating counters: it has no
\* list, create, download or upload call in flight and takes no backoff sleep
C35_NoCallUnderLock == []C35_HolderInBlock /\ [][C35_HolderStep]_vars

\* a worker that has slept in a backoff before it took the lock stores its
\* adjustment while another worker has a transfer call in flight
C35_Witness ==
  /\ progress_lock \in DOMAIN frames
  /\ progress_lock # MainThread
  /\ frames[progress_lock].pc = "store"
  /\ task[progress_lock.k].sleeps > 0
  /\ \E k \in DOMAIN task : task[k].st \in {"download", "upload"}
C36_TransferFrame ==
  (phase = "transfer" \/ (phase = "mirror" /\ phase' = "transfer"))
  => /\ folder_mapping' = folder_mapping
     /\ structure' = structure
     /\ cfg' = cfg
     /\ mi' = mi
     /\ mirror_outcome' = mirror_outcome
     /\ dest_folders' = dest_folders

\* C36: from the first step of transfer_all_files to its last, folder_mapping,
\* the scanned node set and the configuration keep their values, and no
\* destination folder is created
C36_TransferLeavesInputs == [][C36_TransferFrame]_vars

\* a job has ended with a folder mapped and a file below it transferred
C36_Witness ==
  /\ phase = "done"
  /\ DOMAIN folder_mapping # {}
  /\ transferred_files >= 1
  /\ \E n \in 1..Len(uploads) : uploads[n].parent # cfg.dest_folder_id
\* a task whose future is done, by a return or by an exception, has made one
\* adjustment, and a task that is not yet resolved none
C37_OncePerTask ==
  \A k \in DOMAIN task :
    task[k].adjusts =
      IF task[k].st \in {"done", "raised", "collected"} THEN 1 ELSE 0

C37_ResolvingStep ==
  /\ \A k \in DOMAIN task :
       (k \in DOMAIN task' /\ task[k].st # "done" /\ task'[k].st = "done")
       => [error_count |-> error_count', current_workers |-> current_workers']
            = AdjustConcurrency(cfg, task'[k].result, error_count,
                                current_workers)
  /\ (\A k \in DOMAIN task :
        k \in DOMAIN task' /\ task'[k].st = "done" => task[k].st = "done")
     => UNCHANGED adaptVars

\* C37: every resolved task has called adjust_concurrency once, with its
\* result: the step in which it resolves changes the error counter and
\* current_workers as the adjustment for that result does, and no other
\* step changes them
C37_OneAdjustmentPerTask == []C37_OncePerTask /\ [][C37_ResolvingStep]_vars

\* C38: a scan that ended without a node of kind file ends the run: no
\* destination folder has been queried or created, no task exists, and no
\* further step is taken
C38_NoFileEndsRun ==
  (phase \notin {"scan", "scan_failed"} /\ CountFiles(structure) = 0)
  => /\ phase = "done"
     /\ NothingCreated
     /\ mi = 0
     /\ mirror_outcome = << >>
     /\ failed_calls \subseteq {"list", "list_next"}
     /\ total_files = 0
     /\ transferred_files = 0
     /\ ~ENABLED NextScan

\* the scan of a tree whose root holds folders only has ended the run
C38_Witness ==
  /\ phase = "done"
  /\ page_count >= 1
  /\ Len(structure) >= 1
  /\ CountFiles(structure) = 0
C39_Bounded ==
  /\ transferred_files <= total_files
  /\ transferred_bytes <= total_bytes

C39_Monotone ==
  /\ transferred_files' >= transferred_files
  /\ transferred_bytes' >= transferred_bytes

\* C39: during one run of transfer_all_files the transferred files never
\* exceed total_files, the transferred bytes never exceed total_bytes, and
\* neither transferred counter decreases
C39_CountersBoundedMonotone == []C39_Bounded /\ [][C39_Monotone]_vars

\* a job of several files has ended with some of them transferred and some
\* of them failed
C39_Witness ==
  /\ phase = "done"
  /\ transferred_files >= 2
  /\ transferred_files < total_files
  /\ transferred_bytes > 0
  /\ transferred_bytes < total_bytes
====
